---- MODULE Spec2Model ----
(***************************************************************************)
(* NMTC document type detection: the pattern registry, the match scorer,   *)
(* the type classifier (NMTCDetectionService.detect_document_type) and the *)
(* confidence tiering of the documents API.                                *)
(*                                                                         *)
(* Numbers.  Per-match confidences, bonuses and weights are kept in        *)
(* thousandths (0.7 is 700); a type score, which is a sum of products      *)
(* confidence * weight, and every confidence of a result are kept in       *)
(* millionths (0.2 is 200000).  Category multipliers are kept in tenths.   *)
(*                                                                         *)
(* Scores are exact decimals here; the source adds binary floats.          *)
(*                                                                         *)
(* Text.  An OCR text is kept as its length, the number of leading and     *)
(* trailing whitespace characters, and, for every compiled pattern         *)
(* category of every document type, the hits that re.finditer reports for  *)
(* it, in the order the scorer discovers them.  The regular expression     *)
(* engine is a library: its hits are inputs, drawn from bounded sets.      *)
(***************************************************************************)
EXTENDS Integers, Sequences, FiniteSets, TLC

VARIABLES pc, text, document_id, filename, logLevel, fault, clock, outcome,
          m_in, m_out, stored, tier,
          patterns, calls,
          ocr_status, parsed_index, queue, task_seq, run,
          running, succeeded

vars == <<pc, text, document_id, filename, logLevel, fault, clock, outcome,
          m_in, m_out, stored, tier,
          patterns, calls,
          ocr_status, parsed_index, queue, task_seq, run,
          running, succeeded>>

\* the row of the document in the documents table, the Celery queue, the
\* last task attempt, the operations that have read the row and not yet
\* written it, and the task runs that succeeded
task_vars == <<ocr_status, parsed_index, queue, task_seq, run, running, succeeded>>

None == "None"

Min(a, b) == IF a < b THEN a ELSE b

Max(a, b) == IF a > b THEN a ELSE b

(***************************************************************************)
(* Bounds of the model.                                                    *)
(***************************************************************************)
\* most regex hits in one text of the classifier specification
MaxMatches == 2

\* most regex hits in one text of the error-path specification
MaxErrMatches == 1

(***************************************************************************)
(* nmtc_patterns.py: the pattern registry.                                 *)
(***************************************************************************)
UNKNOWN == "unknown"

\* the enum, in declaration order
NMTCDocumentType ==
    << "allocation_agreement", "qlici_loan", "qalicb_certification", "cba",
       "annual_compliance_report", "financial_statement", "promissory_note",
       "insurance", "unknown" >>

\* the pattern categories of each document type, in dict order
DOCUMENT_PATTERNS ==
    [ allocation_agreement     |-> <<"title_patterns", "key_terms", "structural_patterns">>,
      qlici_loan               |-> <<"title_patterns", "key_terms", "financial_patterns">>,
      qalicb_certification     |-> <<"title_patterns", "key_terms", "certification_patterns">>,
      cba                      |-> <<"title_patterns", "key_terms", "commitment_patterns">>,
      annual_compliance_report |-> <<"title_patterns", "key_terms", "reporting_patterns">>,
      financial_statement      |-> <<"title_patterns", "key_terms", "financial_patterns">>,
      promissory_note          |-> <<"title_patterns", "key_terms", "legal_patterns">>,
      insurance                |-> <<"title_patterns", "key_terms", "insurance_patterns">> ]

SCORING_WEIGHTS ==
    [ title_patterns         |-> 400,
      key_terms              |-> 300,
      structural_patterns    |-> 200,
      financial_patterns     |-> 150,
      certification_patterns |-> 150,
      commitment_patterns    |-> 150,
      reporting_patterns     |-> 150,
      legal_patterns         |-> 150,
      insurance_patterns     |-> 150 ]

\* a registry whose low and medium thresholds are exchanged
MIN_CONFIDENCE_THRESHOLDS_exchanged ==
    [ high_confidence |-> 700000, medium_confidence |-> 200000, low_confidence |-> 400000 ]

MIN_CONFIDENCE_THRESHOLDS ==
    [ high_confidence |-> 700000, medium_confidence |-> 400000, low_confidence |-> 200000 ]

get_document_patterns(doc_type) ==
    IF doc_type \in DOMAIN DOCUMENT_PATTERNS THEN DOCUMENT_PATTERNS[doc_type] ELSE <<>>

get_all_document_types == SelectSeq(NMTCDocumentType, LAMBDA t : t # UNKNOWN)

\* a description whose thresholds are exclusive
get_confidence_level_description_exclusive(confidence) ==
    IF confidence > MIN_CONFIDENCE_THRESHOLDS.high_confidence
    THEN "High - Very confident in document type classification"
    ELSE IF confidence > MIN_CONFIDENCE_THRESHOLDS.medium_confidence
    THEN "Medium - Moderately confident, some indicators present"
    ELSE IF confidence > MIN_CONFIDENCE_THRESHOLDS.low_confidence
    THEN "Low - Weak indicators, may need human review"
    ELSE "Very Low - Insufficient indicators for reliable classification"

get_confidence_level_description(confidence) ==
    IF confidence >= MIN_CONFIDENCE_THRESHOLDS.high_confidence
    THEN "High - Very confident in document type classification"
    ELSE IF confidence >= MIN_CONFIDENCE_THRESHOLDS.medium_confidence
    THEN "Medium - Moderately confident, some indicators present"
    ELSE IF confidence >= MIN_CONFIDENCE_THRESHOLDS.low_confidence
    THEN "Low - Weak indicators, may need human review"
    ELSE "Very Low - Insufficient indicators for reliable classification"

\* NMTC_KEY_FIELDS: the patterns of each field category, each named after the
\* words that introduce its capture group
NMTC_KEY_FIELDS ==
    [ dates       |-> << "effective_date", "maturity_date", "investment_date",
                         "compliance_period_begins" >>,
      amounts     |-> << "allocation_amount", "loan_amount", "total_allocation" >>,
      percentages |-> << "interest_rate", "per_annum", "substantially_all" >>,
      entities    |-> << "cde", "qalicb", "borrower", "lender" >>,
      locations   |-> << "census_tract", "state", "city" >> ]

\* every (field category, pattern) pair
KeyPatterns ==
    UNION { { <<c, i>> : i \in 1..Len(NMTC_KEY_FIELDS[c]) } : c \in DOMAIN NMTC_KEY_FIELDS }

\* every (document type, category) pair that has compiled patterns
Slots ==
    { <<t, DOCUMENT_PATTERNS[t][i]>> : t \in DOMAIN DOCUMENT_PATTERNS, i \in 1..3 }

\* the place of a document type in the enum
type_index(t) == CHOOSE i \in 1..Len(NMTCDocumentType) : NMTCDocumentType[i] = t

\* the place of a slot in the order the classifier visits the slots
slot_index(slot) ==
    3 * (type_index(slot[1]) - 1)
      + (CHOOSE i \in 1..3 : DOCUMENT_PATTERNS[slot[1]][i] = slot[2])

(***************************************************************************)
(* detection_service.py: the match scorer.                                 *)
(***************************************************************************)
\* every category weighs as much as a title
SCORING_WEIGHTS_get_equal(pattern_category) == 400

\* every category weighs a quarter
SCORING_WEIGHTS_get_quarter(pattern_category) == 250

\* SCORING_WEIGHTS.get(pattern_category, 0.1)
SCORING_WEIGHTS_get(pattern_category) ==
    IF pattern_category \in DOMAIN SCORING_WEIGHTS
    THEN SCORING_WEIGHTS[pattern_category] ELSE 100

\* multipliers of half the size
category_multipliers_halved ==
    [ title_patterns         |-> 6,
      key_terms              |-> 5,
      structural_patterns    |-> 4,
      financial_patterns     |-> 4,
      certification_patterns |-> 4,
      commitment_patterns    |-> 4,
      reporting_patterns     |-> 4,
      legal_patterns         |-> 4,
      insurance_patterns     |-> 4 ]

\* multipliers that bring a match of a type's third category below 0.5
category_multipliers_weak_third ==
    [ title_patterns         |-> 12,
      key_terms              |-> 10,
      structural_patterns    |-> 7,
      financial_patterns     |-> 6,
      certification_patterns |-> 7,
      commitment_patterns    |-> 6,
      reporting_patterns     |-> 6,
      legal_patterns         |-> 6,
      insurance_patterns     |-> 6 ]

\* category_multipliers.get(pattern_category, 1.0), in tenths
category_multipliers ==
    [ title_patterns         |-> 12,
      key_terms              |-> 10,
      structural_patterns    |-> 9,
      financial_patterns     |-> 8,
      certification_patterns |-> 9,
      commitment_patterns    |-> 8,
      reporting_patterns     |-> 8,
      legal_patterns         |-> 8,
      insurance_patterns     |-> 8 ]

base_confidence == 700

\* a match confidence whose sum is not clamped to 1.0
_calculate_match_confidence_unclamped(match, text_len, pattern_category) ==
    LET multiplier == IF pattern_category \in DOMAIN category_multipliers
                      THEN category_multipliers[pattern_category] ELSE 10
        early10 == IF text_len > 0 THEN match.start * 10 < text_len ELSE TRUE
        early30 == IF text_len > 0 THEN match.start * 10 < 3 * text_len ELSE TRUE
        position_bonus == IF early10 THEN 100 ELSE IF early30 THEN 50 ELSE 0
        match_length == match.end - match.start
        length_bonus == IF match_length > 50 THEN 100
                        ELSE IF match_length > 20 THEN 50 ELSE 0
    IN  (base_confidence * multiplier) \div 10 + position_bonus + length_bonus

\* match is [start, end), text_len is len(text_content)
_calculate_match_confidence(match, text_len, pattern_category) ==
    LET multiplier == IF pattern_category \in DOMAIN category_multipliers
                      THEN category_multipliers[pattern_category] ELSE 10
        \* match_position = match.start() / len(text_content) if text_content else 0
        early10 == IF text_len > 0 THEN match.start * 10 < text_len ELSE TRUE
        early30 == IF text_len > 0 THEN match.start * 10 < 3 * text_len ELSE TRUE
        position_bonus == IF early10 THEN 100 ELSE IF early30 THEN 50 ELSE 0
        match_length == match.end - match.start
        length_bonus == IF match_length > 50 THEN 100
                        ELSE IF match_length > 20 THEN 50 ELSE 0
    IN  Min((base_confidence * multiplier) \div 10 + position_bonus + length_bonus, 1000)

context_size == 100

\* a context that gets its trailing ellipsis also when the window ends with
\* the text
_extract_context_always_trailing(text_len, start, end) ==
    LET context_start == Max(0, start - context_size)
        context_end   == Min(text_len, end + context_size)
    IN  [ from |-> context_start, to |-> context_end,
          lead_ellipsis  |-> context_start > 0,
          trail_ellipsis |-> context_end <= text_len ]

\* the window of the text a context is cut from, and its two ellipses
_extract_context(text_len, start, end) ==
    LET context_start == Max(0, start - context_size)
        context_end   == Min(text_len, end + context_size)
    IN  [ from |-> context_start, to |-> context_end,
          lead_ellipsis  |-> context_start > 0,
          trail_ellipsis |-> context_end < text_len ]

\* the whitespace characters of a text (\s)
Whitespace == { " ", "\n" }

\* re.sub(r'\s+', ' ', s) on a string kept as its characters: the first
\* character of every whitespace run becomes a space, the rest of it goes
re_sub_whitespace(s) ==
    LET kept == SelectSeq([ i \in 1..Len(s) |-> i ],
                          LAMBDA i : s[i] \notin Whitespace
                                     \/ i = 1 \/ s[i - 1] \notin Whitespace)
    IN  [ k \in 1..Len(kept) |-> IF s[kept[k]] \in Whitespace THEN " " ELSE s[kept[k]] ]

\* s.strip()
str_strip(s) ==
    LET black == { i \in 1..Len(s) : s[i] \notin Whitespace }
    IN  IF black = {} THEN <<>>
        ELSE SubSeq(s, CHOOSE i \in black : \A j \in black : i <= j,
                       CHOOSE i \in black : \A j \in black : j <= i)

\* "..."
Ellipsis == << ".", ".", "." >>

\* the string _extract_context returns for the characters of a text
_extract_context_string(text_chars, start, end) ==
    LET w       == _extract_context(Len(text_chars), start, end)
        context == str_strip(re_sub_whitespace(SubSeq(text_chars, w.from + 1, w.to)))
    IN  (IF w.lead_ellipsis THEN Ellipsis ELSE <<>>)
          \o context
          \o (IF w.trail_ellipsis THEN Ellipsis ELSE <<>>)

PatternMatch(text_content, pattern_category, hit) ==
    [ pattern_type |-> pattern_category,
      match_text   |-> hit.end - hit.start,
      confidence   |-> _calculate_match_confidence(hit, text_content.len, pattern_category),
      location     |-> <<hit.start, hit.end>>,
      context      |-> _extract_context(text_content.len, hit.start, hit.end) ]

\* the matches of one category, in discovery order
category_matches(text_content, doc_type, pattern_category) ==
    LET hits == text_content.found[<<doc_type, pattern_category>>]
    IN  [ i \in 1..Len(hits) |-> PatternMatch(text_content, pattern_category, hits[i]) ]

\* a category reduced to its first match instead of its best one
best_match_first(ms) == ms[1]

\* max(category_matches, key=lambda m: m.confidence): the first of the maxima
best_match(ms) ==
    ms[ CHOOSE i \in 1..Len(ms) :
          /\ \A j \in 1..Len(ms) : ms[j].confidence <= ms[i].confidence
          /\ \A j \in 1..(i - 1) : ms[j].confidence < ms[i].confidence ]

\* a scorer that keeps only the best match of each category in the match list
RECURSIVE score_categories_best_only(_, _, _, _, _)
score_categories_best_only(text_content, doc_type, cats, total_score, matches) ==
    IF cats = <<>> THEN [ total_score |-> total_score, matches |-> matches ]
    ELSE LET pattern_category == Head(cats)
             category_weight  == SCORING_WEIGHTS_get(pattern_category)
             cm               == category_matches(text_content, doc_type, pattern_category)
         IN  IF cm # <<>>
             THEN score_categories_best_only(text_content, doc_type, Tail(cats),
                                   total_score + best_match(cm).confidence * category_weight,
                                   matches \o <<best_match(cm)>>)
             ELSE score_categories_best_only(text_content, doc_type, Tail(cats),
                                   total_score, matches)

RECURSIVE score_categories(_, _, _, _, _)
score_categories(text_content, doc_type, cats, total_score, matches) ==
    IF cats = <<>> THEN [ total_score |-> total_score, matches |-> matches ]
    ELSE LET pattern_category == Head(cats)
             category_weight  == SCORING_WEIGHTS_get(pattern_category)
             cm               == category_matches(text_content, doc_type, pattern_category)
         IN  IF cm # <<>>
             THEN score_categories(text_content, doc_type, Tail(cats),
                                   total_score + best_match(cm).confidence * category_weight,
                                   matches \o cm)
             ELSE score_categories(text_content, doc_type, Tail(cats), total_score, matches)

_score_document_type(text_content, doc_type) ==
    LET r == score_categories(text_content, doc_type, get_document_patterns(doc_type), 0, <<>>)
    IN  [ score |-> Min(r.total_score, 1000000), matches |-> r.matches ]

(***************************************************************************)
(* detection_service.py: metadata, reasoning and the unknown result.       *)
(***************************************************************************)
\* a type-specific block for three types only
type_specific_block_three(doc_type) ==
    IF doc_type = "allocation_agreement" THEN {"allocation_specific"}
    ELSE IF doc_type = "qlici_loan" THEN {"loan_specific"}
    ELSE IF doc_type = "qalicb_certification" THEN {"certification_specific"}
    ELSE {}

\* the type-specific block _extract_metadata merges into the metadata
type_specific_block(doc_type) ==
    IF doc_type = "allocation_agreement" THEN {"allocation_specific"}
    ELSE IF doc_type = "qlici_loan" THEN {"loan_specific"}
    ELSE IF doc_type = "qalicb_certification" THEN {"certification_specific"}
    ELSE IF doc_type = "financial_statement" THEN {"financial_specific"}
    ELSE {}

\* a metadata object without its extracted fields
_extract_metadata_no_fields(text_content, doc_type, fname, now) ==
    [ keys |-> {"detection_timestamp", "filename", "document_type", "text_length",
               "structure_indicators", "compliance_terms"}
              \cup type_specific_block(doc_type),
      detection_timestamp |-> now,
      filename            |-> fname,
      document_type       |-> doc_type,
      text_length         |-> text_content.len ]

\* match.strip() of a captured string: its core without the whitespace around
strip(match) == [ match EXCEPT !.lead = 0, !.trail = 0 ]

\* list(set([match.strip() for match in matches if match.strip()])): the
\* distinct stripped captures of one pattern
clean_matches(text_content, key_pattern) ==
    LET matches == text_content.captured[key_pattern]
    IN  { strip(matches[i]) : i \in { j \in 1..Len(matches) : strip(matches[j]).core # "" } }

\* field_matches after every pattern of the category has extended it.  The
\* list is kept as the number of times each value occurs in it: list(set())
\* fixes no order
field_matches(text_content, field_category) ==
    LET n      == Len(NMTC_KEY_FIELDS[field_category])
        values == UNION { clean_matches(text_content, <<field_category, i>>) : i \in 1..n }
    IN  [ v \in values |->
            Cardinality({ i \in 1..n : v \in clean_matches(text_content, <<field_category, i>>) }) ]

\* a category is stored only when its list is not empty
_extract_key_fields(text_content) ==
    [ field_category \in { c \in DOMAIN NMTC_KEY_FIELDS :
                              DOMAIN field_matches(text_content, c) # {} }
        |-> field_matches(text_content, field_category) ]

_extract_metadata(text_content, doc_type, fname, now) ==
    [ keys |-> {"detection_timestamp", "filename", "document_type", "text_length",
               "extracted_fields", "structure_indicators", "compliance_terms"}
              \cup type_specific_block(doc_type),
      detection_timestamp |-> now,
      filename            |-> fname,
      document_type       |-> doc_type,
      text_length         |-> text_content.len,
      extracted_fields    |-> _extract_key_fields(text_content) ]

\* a sentence for the allocation agreement and the QLICI loan only
canned_sentence_two(doc_type) ==
    IF doc_type = "allocation_agreement"
    THEN <<"Key NMTC allocation terms and structures identified.">>
    ELSE IF doc_type = "qlici_loan"
    THEN <<"QLICI loan terms and QALICB compliance requirements detected.">>
    ELSE <<>>

\* the sentence _generate_reasoning appends for the document type
canned_sentence(doc_type) ==
    IF doc_type = "allocation_agreement"
    THEN <<"Key NMTC allocation terms and structures identified.">>
    ELSE IF doc_type = "qlici_loan"
    THEN <<"QLICI loan terms and QALICB compliance requirements detected.">>
    ELSE IF doc_type = "qalicb_certification"
    THEN <<"QALICB certification language and compliance tests found.">>
    ELSE <<>>

\* {x:.1%}: a value in millionths rounded to a tenth of a percent
percent1(x) == (x + 500) \div 1000

\* {x:.3f}: a value in millionths rounded to three decimals
fixed3(x) == (x + 500) \div 1000

_generate_reasoning(doc_type, confidence, matches) ==
    LET primary_matches   == SelectSeq(matches, LAMBDA m : m.confidence > 500)
        secondary_matches == SelectSeq(matches, LAMBDA m : m.confidence <= 500)
    IN  [ kind    |-> "classified",
          classified_as    |-> doc_type,
          percent          |-> percent1(confidence),
          confidence_level |-> get_confidence_level_description(confidence),
          strong_indicators |->
              { primary_matches[i].pattern_type : i \in 1..Len(primary_matches) },
          weak_indicators |->
              { secondary_matches[i].pattern_type : i \in 1..Len(secondary_matches) },
          sentence |-> canned_sentence(doc_type) ]

\* an unknown result that reports the threshold as its confidence
_create_unknown_result_threshold(reason, now) ==
    [ document_type        |-> UNKNOWN,
      confidence           |-> MIN_CONFIDENCE_THRESHOLDS.low_confidence,
      primary_indicators   |-> <<>>,
      secondary_indicators |-> <<>>,
      metadata  |-> [ keys |-> {"detection_timestamp", "classification_failed", "failure_reason"},
                      detection_timestamp   |-> now,
                      classification_failed |-> TRUE,
                      failure_reason        |-> reason ],
      reasoning |-> [ kind |-> "could_not_be_classified", reason |-> reason ] ]

_create_unknown_result(reason, now) ==
    [ document_type        |-> UNKNOWN,
      confidence           |-> 0,
      primary_indicators   |-> <<>>,
      secondary_indicators |-> <<>>,
      metadata  |-> [ keys |-> {"detection_timestamp", "classification_failed", "failure_reason"},
                      detection_timestamp   |-> now,
                      classification_failed |-> TRUE,
                      failure_reason        |-> reason ],
      reasoning |-> [ kind |-> "could_not_be_classified", reason |-> reason ] ]

(***************************************************************************)
(* The standard library logger the service holds (logging.getLogger) and   *)
(* the exceptions of exceptions.py.                                        *)
(***************************************************************************)
levelno == [ DEBUG |-> 10, INFO |-> 20, WARNING |-> 30, ERROR |-> 40, CRITICAL |-> 50 ]

\* Logger.isEnabledFor(level) under the logger's effective level
isEnabledFor(effective, level) == levelno[level] >= levelno[effective]

\* logger.info/debug/error(msg, document_id=..., ...): the call reaches
\* Logger._log(level, msg, args, **kwargs) exactly when the level is enabled,
\* and _log accepts no such keyword argument
logger_call_raises(effective, level) == isEnabledFor(effective, level)

UnexpectedKeyword ==
    [ type |-> "TypeError", message |-> "Logger._log() got an unexpected keyword argument" ]

NoneHasNoLen ==
    [ type |-> "TypeError", message |-> "object of type 'NoneType' has no len()" ]

\* an error raised by a step of the classification itself
InternalError(stage) == [ type |-> "RuntimeError", message |-> stage ]

\* str(uuid)
str_uuid(u) == IF u = "uuid-1" THEN "00000000-0000-0000-0000-000000000001" ELSE "uuid"

DocumentProcessingError(detail, doc_id) ==
    [ type        |-> "DocumentProcessingError",
      status_code |-> 500,
      detail      |-> detail,
      error_code  |-> "DOCUMENT_PROCESSING_ERROR",
      context     |-> [ document_id      |-> IF doc_id # None THEN str_uuid(doc_id) ELSE None,
                        processing_stage |-> None ] ]

(***************************************************************************)
(* detection_service.py: the type classifier.                              *)
(***************************************************************************)
Return(result, n) == [ kind |-> "return", result |-> result, scored |-> n ]

Raise(exc, n) == [ kind |-> "raise", exc |-> exc, scored |-> n ]

\* the length of the text with its whitespace margins
stripped_len_unstripped(text_content) == text_content.len

\* len(text_content.strip())
stripped_len(text_content) == Max(0, text_content.len - text_content.lead - text_content.trail)

\* a maximum that lets the last of several equal scores win
max_by_score_last(types, type_scores) ==
    types[ CHOOSE i \in 1..Len(types) :
             /\ \A j \in 1..Len(types) : type_scores[types[j]] <= type_scores[types[i]]
             /\ \A j \in (i + 1)..Len(types) : type_scores[types[j]] < type_scores[types[i]] ]

\* max(type_scores, key=type_scores.get) over a dict filled in registry order
max_by_score(types, type_scores) ==
    types[ CHOOSE i \in 1..Len(types) :
             /\ \A j \in 1..Len(types) : type_scores[types[j]] <= type_scores[types[i]]
             /\ \A j \in 1..(i - 1) : type_scores[types[j]] < type_scores[types[i]] ]

\* the body of the try statement; n counts the calls of _score_document_type.
\* The logger.debug call of the scoring loop and the closing logger.info call
\* are reached only when INFO is disabled, and then they do nothing.
try_body(text_content, doc_id, fname, level, flt, now) ==
    IF text_content.none THEN Raise(NoneHasNoLen, 0)
    ELSE IF logger_call_raises(level, "INFO") THEN Raise(UnexpectedKeyword, 0)
    ELSE IF text_content.len = 0 \/ stripped_len(text_content) < 50
    THEN Return(_create_unknown_result([ why |-> "Insufficient text content for classification" ],
                                       now), 0)
    ELSE IF flt = "scoring" THEN Raise(InternalError("scoring"), 1)
    ELSE
      LET types        == get_all_document_types
          n            == Len(types)
          scored       == [ t \in { types[i] : i \in 1..n } |-> _score_document_type(text_content, t) ]
          type_scores  == [ t \in DOMAIN scored |-> scored[t].score ]
          best_type    == max_by_score(types, type_scores)
          best_score   == type_scores[best_type]
          best_matches == scored[best_type].matches
          min_threshold == MIN_CONFIDENCE_THRESHOLDS.low_confidence
      IN  IF best_score < min_threshold
          THEN Return(_create_unknown_result([ why |-> "Low confidence score",
                                               score |-> fixed3(best_score),
                                               threshold |-> min_threshold ], now), n)
          ELSE IF flt = "metadata" THEN Raise(InternalError("metadata"), n)
          ELSE IF flt = "reasoning" THEN Raise(InternalError("reasoning"), n)
          ELSE Return([ document_type        |-> best_type,
                        confidence           |-> best_score,
                        primary_indicators   |->
                            SelectSeq(best_matches, LAMBDA m : m.confidence > 500),
                        secondary_indicators |->
                            SelectSeq(best_matches, LAMBDA m : m.confidence <= 500),
                        metadata  |-> _extract_metadata(text_content, best_type, fname, now),
                        reasoning |-> _generate_reasoning(best_type, best_score, best_matches) ],
                      n)

\* the except clause: logger.error(..., document_id=..., error=str(e)), then
\* raise DocumentProcessingError(f"Document type detection failed: {e}", document_id)
except_clause(e, doc_id, level, n) ==
    IF logger_call_raises(level, "ERROR") THEN Raise(UnexpectedKeyword, n)
    ELSE Raise(DocumentProcessingError([ message |-> "Document type detection failed",
                                         cause   |-> e.message ], doc_id), n)

\* a classifier that remembers it was called: after its first call it answers
\* unknown
detect_document_type_once(text_content, doc_id, fname, level, flt, now) ==
    LET r == try_body(text_content, doc_id, fname, level, flt, now)
    IN  IF now > 0
        THEN Return(_create_unknown_result([ why |-> "Insufficient text content for classification" ],
                                           now), 0)
        ELSE IF r.kind = "raise" THEN except_clause(r.exc, doc_id, level, r.scored) ELSE r

detect_document_type(text_content, doc_id, fname, level, flt, now) ==
    LET r == try_body(text_content, doc_id, fname, level, flt, now)
    IN  IF r.kind = "raise" THEN except_clause(r.exc, doc_id, level, r.scored) ELSE r

(***************************************************************************)
(* The inputs of a call.                                                   *)
(***************************************************************************)
\* text lengths, their whitespace margins and the places a regex hit can take
TextShapes ==
    { [ len |-> 0,   lead |-> 0,  trail |-> 0,  hits |-> {} ],
      [ len |-> 10,  lead |-> 10, trail |-> 0,  hits |-> {} ],
      [ len |-> 49,  lead |-> 0,  trail |-> 0,
        hits |-> { [ start |-> 0, end |-> 5 ], [ start |-> 20, end |-> 45 ] } ],
      [ len |-> 120, lead |-> 30, trail |-> 41,
        hits |-> { [ start |-> 30, end |-> 70 ] } ],
      [ len |-> 50,  lead |-> 0,  trail |-> 0,
        hits |-> { [ start |-> 0, end |-> 5 ], [ start |-> 25, end |-> 50 ] } ],
      [ len |-> 120, lead |-> 0,  trail |-> 0,
        hits |-> { [ start |-> 0, end |-> 55 ], [ start |-> 20, end |-> 45 ],
                   [ start |-> 40, end |-> 45 ] } ] }

BoundedSeqs(S, n) == UNION { [ 1..k -> S ] : k \in 0..n }

\* the hits of one slot among a sequence of <<slot, hit>> pairs, in order
RECURSIVE HitsOf(_, _)
HitsOf(ms, slot) ==
    IF ms = <<>> THEN <<>>
    ELSE IF Head(ms)[1] = slot THEN <<Head(ms)[2]>> \o HitsOf(Tail(ms), slot)
    ELSE HitsOf(Tail(ms), slot)

\* a text in which no key-field pattern captures anything
MkText(sh, ms) ==
    [ none |-> FALSE, len |-> sh.len, lead |-> sh.lead, trail |-> sh.trail,
      found |-> [ slot \in Slots |-> HitsOf(ms, slot) ],
      captured |-> [ kp \in KeyPatterns |-> <<>> ] ]

\* text_content = None
NoneText == [ none |-> TRUE, len |-> 0, lead |-> 0, trail |-> 0,
              found |-> [ slot \in Slots |-> <<>> ],
              captured |-> [ kp \in KeyPatterns |-> <<>> ] ]

\* the hits of a text, listed slot by slot in the order the classifier visits
\* the slots (the order of the hits of one slot is free)
HitLists(sh, n) ==
    { ms \in BoundedSeqs(Slots \X sh.hits, n) :
        \A i \in 1..(Len(ms) - 1) : slot_index(ms[i][1]) <= slot_index(ms[i + 1][1]) }

\* text is one of the texts with at most n hits, or None when withNone
TextIs(t, n, withNone) ==
    \/ \E sh \in TextShapes : \E ms \in HitLists(sh, n) : t = MkText(sh, ms)
    \/ withNone /\ t = NoneText

UUIDs == { "uuid-1" }

Filenames == { "agreement.pdf" }

LogLevels == { "INFO", "WARNING", "CRITICAL" }

Faults == { "none", "scoring", "metadata", "reasoning" }

NoOutcome == [ kind |-> "none" ]

(***************************************************************************)
(* The classifier instance, the row of a document in the documents table   *)
(* and the Celery queue.                                                   *)
(***************************************************************************)
\* NMTCPatterns(): the registry the service instance holds after construction
NMTCPatterns ==
    [ compiled_patterns         |-> DOCUMENT_PATTERNS,
      SCORING_WEIGHTS           |-> SCORING_WEIGHTS,
      MIN_CONFIDENCE_THRESHOLDS |-> MIN_CONFIDENCE_THRESHOLDS ]

\* the enum of models/database.py
OcrStatus ==
    [ QUEUED |-> "queued", PROCESSING |-> "processing", COMPLETED |-> "completed",
      ERROR |-> "error", DONE |-> "done", UPLOADED |-> "uploaded" ]

OcrStatusValues == { OcrStatus[k] : k \in DOMAIN OcrStatus }

\* the ocr_status of a document that has no row
Absent == "absent"

\* parsed_index.get('detection_results', {}) of a row that has none
NoDetectionResults ==
    [ nonempty |-> FALSE, has_confidence |-> FALSE, confidence |-> 0,
      document_type_detected |-> None,
      primary_indicators |-> <<>>, secondary_indicators |-> <<>>,
      detection_failed |-> FALSE, user_confirmed |-> FALSE ]

\* parsed_index of a new row: NULL
NoIndex ==
    [ null |-> TRUE, keys |-> {}, detection_results |-> NoDetectionResults,
      processing_history |-> <<>> ]

\* no task attempt has ended yet
NoRun ==
    [ task |-> None, id |-> 0, retries |-> 0, state |-> "PENDING", exc |-> None,
      fault |-> "none", ocr |-> FALSE, detection |-> "not_reached",
      ocr_status |-> Absent, parsed_index |-> NoIndex ]

ServiceIdle ==
    /\ patterns = NMTCPatterns
    /\ calls = <<>>

TaskIdle ==
    /\ ocr_status = Absent
    /\ parsed_index = NoIndex
    /\ queue = {}
    /\ task_seq = 0
    /\ run = NoRun
    /\ running = {}
    /\ succeeded = {}

(***************************************************************************)
(* The classifier specification: one call of detect_document_type under    *)
(* the default logging configuration (root level WARNING).                 *)
(***************************************************************************)
OtherIdle ==
    /\ m_in = <<>>
    /\ m_out = 0
    /\ stored = <<>>
    /\ tier = <<>>
    /\ ServiceIdle
    /\ TaskIdle

Init ==
    /\ pc = "call"
    /\ TextIs(text, MaxMatches, FALSE)
    /\ document_id = None
    /\ filename = None
    /\ logLevel = "WARNING"
    /\ fault = "none"
    /\ clock = 0
    /\ outcome = NoOutcome
    /\ OtherIdle

Detect ==
    /\ pc = "call"
    /\ outcome' = detect_document_type(text, document_id, filename, logLevel, fault, clock)
    /\ clock' = clock + 1
    /\ pc' = "done"
    /\ UNCHANGED <<text, document_id, filename, logLevel, fault, m_in, m_out, stored, tier,
                   patterns, calls, task_vars>>

Next == Detect

Spec == Init /\ [][Next]_vars

(***************************************************************************)
(* The error-path specification: the same call under every logging level,  *)
(* with a text that may be None and a step that may raise.                 *)
(***************************************************************************)
InitErr ==
    /\ pc = "call"
    /\ TextIs(text, MaxErrMatches, TRUE)
    /\ document_id \in UUIDs \cup { None }
    /\ filename \in Filenames \cup { None }
    /\ logLevel \in LogLevels
    /\ fault \in Faults
    /\ clock = 0
    /\ outcome = NoOutcome
    /\ OtherIdle

SpecErr == InitErr /\ [][Next]_vars

(***************************************************************************)
(* The match-confidence specification: _calculate_match_confidence applied *)
(* to one regex hit of one category in a text of a given length.           *)
(***************************************************************************)
MatchCategories == DOMAIN category_multipliers \cup { "other_patterns" }

MatchTextLens == { 10, 60, 120 }

MatchLengths == { 1, 20, 21, 50, 51 }

ClassifierIdle ==
    /\ ServiceIdle
    /\ TaskIdle
    /\ text = NoneText
    /\ document_id = None
    /\ filename = None
    /\ logLevel = "WARNING"
    /\ fault = "none"
    /\ clock = 0
    /\ outcome = NoOutcome

InitMatch ==
    /\ pc = "match_call"
    /\ \E c \in MatchCategories, n \in MatchTextLens :
         \E s \in 0..(n - 1), l \in MatchLengths :
            /\ s + l <= n
            /\ m_in = [ pattern_category |-> c, text_len |-> n, start |-> s, end |-> s + l ]
    /\ m_out = 0
    /\ stored = <<>>
    /\ tier = <<>>
    /\ ClassifierIdle

CalculateMatchConfidence ==
    /\ pc = "match_call"
    /\ m_out' = _calculate_match_confidence([ start |-> m_in.start, end |-> m_in.end ],
                                            m_in.text_len, m_in.pattern_category)
    /\ pc' = "match_done"
    /\ UNCHANGED <<text, document_id, filename, logLevel, fault, clock, outcome,
                   m_in, stored, tier, patterns, calls, task_vars>>

NextMatch == CalculateMatchConfidence

SpecMatch == InitMatch /\ [][NextMatch]_vars

(***************************************************************************)
(* documents.py: the confidence tiering of get_detection_status, applied   *)
(* to the detection_results stored in a document's parsed_index.           *)
(***************************************************************************)
\* ConfidenceLevel of models/document.py
ConfidenceLevel == [ HIGH |-> "high", MEDIUM |-> "medium", LOW |-> "low" ]

\* detection_results.get('confidence', 0.0)
get_confidence(detection_results) ==
    IF detection_results.has_confidence THEN detection_results.confidence ELSE 0

\* a tiering whose high threshold is exclusive
get_detection_status_exclusive(detection_results) ==
    IF ~detection_results.nonempty
    THEN [ message |-> "Detection not started or still in progress",
           detection_result |-> <<>> ]
    ELSE LET confidence == get_confidence(detection_results)
             level == IF confidence > 900000 THEN ConfidenceLevel.HIGH
                      ELSE IF confidence >= 700000 THEN ConfidenceLevel.MEDIUM
                      ELSE ConfidenceLevel.LOW
             requires_confirmation == ~(confidence > 900000)
             auto_process_countdown ==
                 IF confidence > 900000 THEN <<>>
                 ELSE IF confidence >= 700000 THEN <<10>> ELSE <<>>
         IN  [ message |-> "Detection completed successfully",
               detection_result |->
                 << [ confidence |-> confidence,
                      confidence_level |-> level,
                      requires_confirmation |-> requires_confirmation,
                      auto_process_countdown |-> auto_process_countdown ] >> ]

\* the optional countdown is <<>> for None and <<n>> for n
get_detection_status(detection_results) ==
    IF ~detection_results.nonempty
    THEN [ message |-> "Detection not started or still in progress",
           detection_result |-> <<>> ]
    ELSE LET confidence == get_confidence(detection_results)
             level == IF confidence >= 900000 THEN ConfidenceLevel.HIGH
                      ELSE IF confidence >= 700000 THEN ConfidenceLevel.MEDIUM
                      ELSE ConfidenceLevel.LOW
             requires_confirmation == ~(confidence >= 900000)
             auto_process_countdown ==
                 IF confidence >= 900000 THEN <<>>
                 ELSE IF confidence >= 700000 THEN <<10>> ELSE <<>>
         IN  [ message |-> "Detection completed successfully",
               detection_result |->
                 << [ confidence |-> confidence,
                      confidence_level |-> level,
                      requires_confirmation |-> requires_confirmation,
                      auto_process_countdown |-> auto_process_countdown ] >> ]

\* a status whose medium tier starts above 0.7
get_document_status_exclusive(detection_results) ==
    IF ~detection_results.nonempty THEN [ detection |-> <<>> ]
    ELSE LET confidence == get_confidence(detection_results)
         IN  [ detection |->
                 << [ confidence |-> confidence,
                      confidence_level |->
                          IF confidence >= 900000 THEN "high"
                          ELSE IF confidence > 700000 THEN "medium" ELSE "low",
                      requires_confirmation |-> ~(confidence >= 900000),
                      auto_process_countdown |->
                          IF confidence >= 900000 THEN <<>>
                          ELSE IF confidence > 700000 THEN <<10>> ELSE <<>> ] >> ]

\* the detection block of get_document_status; the response is a dict, and
\* its auto_process_countdown is <<n>> when the key is set and <<>> when it
\* is not.  A parsed_index has the key detection_results only with a
\* non-empty value.
get_document_status(detection_results) ==
    IF ~detection_results.nonempty THEN [ detection |-> <<>> ]
    ELSE LET confidence == get_confidence(detection_results)
         IN  [ detection |->
                 << [ confidence |-> confidence,
                      confidence_level |->
                          IF confidence >= 900000 THEN "high"
                          ELSE IF confidence >= 700000 THEN "medium" ELSE "low",
                      requires_confirmation |-> ~(confidence >= 900000),
                      auto_process_countdown |->
                          IF confidence >= 900000 THEN <<>>
                          ELSE IF confidence >= 700000 THEN <<10>> ELSE <<>> ] >> ]

\* confidences from 0.0 to 1.0, and the values next below the two thresholds
StoredConfidences == { 5000 * k : k \in 0..200 } \cup { 699999, 899999 }

StoredResults ==
    { [ nonempty |-> FALSE, has_confidence |-> FALSE, confidence |-> 0 ],
      [ nonempty |-> TRUE,  has_confidence |-> FALSE, confidence |-> 0 ] }
    \cup { [ nonempty |-> TRUE, has_confidence |-> TRUE, confidence |-> c ] :
             c \in StoredConfidences }

InitTier ==
    /\ pc = "tier_call"
    /\ stored \in StoredResults
    /\ tier = <<>>
    /\ m_in = <<>>
    /\ m_out = 0
    /\ ClassifierIdle

GetDetectionStatus ==
    /\ pc = "tier_call"
    /\ tier' = get_detection_status(stored)
    /\ pc' = "tier_done"
    /\ UNCHANGED <<text, document_id, filename, logLevel, fault, clock, outcome,
                   m_in, m_out, stored, patterns, calls, task_vars>>

NextTier == GetDetectionStatus

SpecTier == InitTier /\ [][NextTier]_vars

(***************************************************************************)
(* The two-status specification: a client asks for the status and then for *)
(* the detection status of the same stored detection results.              *)
(***************************************************************************)
InitStatus ==
    /\ pc = "status_call"
    /\ stored \in StoredResults
    /\ tier = <<>>
    /\ m_in = <<>>
    /\ m_out = 0
    /\ ClassifierIdle

GetDocumentStatus ==
    /\ pc = "status_call"
    /\ m_out' = get_document_status(stored)
    /\ pc' = "tier_call"
    /\ UNCHANGED <<text, document_id, filename, logLevel, fault, clock, outcome,
                   m_in, stored, tier, patterns, calls, task_vars>>

NextStatus == GetDocumentStatus \/ GetDetectionStatus

SpecStatus == InitStatus /\ [][NextStatus]_vars

(***************************************************************************)
(* The label specification: get_confidence_level_description applied to a  *)
(* confidence, either directly or by a call of the classifier.             *)
(***************************************************************************)
\* confidences from 0.0 to 1.0, the values next below the three thresholds,
\* and values outside the range
LabelConfidences ==
    { 5000 * k : k \in 0..200 } \cup { 199999, 399999, 699999, -1000, 1200000 }

InitLabel ==
    \/ Init
    \/ /\ pc = "label_call"
       /\ \E c \in LabelConfidences : m_in = [ confidence |-> c ]
       /\ m_out = 0
       /\ stored = <<>>
       /\ tier = <<>>
       /\ ClassifierIdle

GetConfidenceLevelDescription ==
    /\ pc = "label_call"
    /\ m_out' = get_confidence_level_description(m_in.confidence)
    /\ pc' = "label_done"
    /\ UNCHANGED <<text, document_id, filename, logLevel, fault, clock, outcome,
                   m_in, stored, tier, patterns, calls, task_vars>>

NextLabel == Detect \/ GetConfidenceLevelDescription

SpecLabel == InitLabel /\ [][NextLabel]_vars

(***************************************************************************)
(* The key-field specification: one call of detect_document_type on a text *)
(* that classifies and in which the key-field patterns capture values.     *)
(* pattern.findall reports the captures of a pattern in text order; they   *)
(* are inputs, drawn from bounded sets.                                    *)
(***************************************************************************)
\* most captures in one text
MaxCaptures == 2

\* a captured string: its core and the whitespace around it
Raw(core, trail) == [ core |-> core, lead |-> 0, trail |-> trail ]

\* the strings the patterns of a category can capture; the capture group of
\* an entity pattern runs to the end of the line and may end with spaces
RawValues ==
    [ dates       |-> { Raw("01/15/2024", 0), Raw("12/31/2030", 0) },
      amounts     |-> { Raw("1,000,000", 0), Raw("250000.00", 0) },
      percentages |-> { Raw("5", 0), Raw("7.5", 0) },
      entities    |-> { Raw("Acme LLC", 0), Raw("Acme LLC", 2), Raw("Beta CDE", 0) },
      locations   |-> { Raw("1234.01", 0), Raw("NY", 0) } ]

\* the place of a key-field pattern in the order the patterns are applied
key_pattern_index(kp) ==
    4 * ((CHOOSE k \in 1..5 :
            <<"dates", "amounts", "percentages", "entities", "locations">>[k] = kp[1]) - 1)
      + kp[2]

\* a pattern with one of the strings it can capture
Captures == UNION { { <<kp, v>> : v \in RawValues[kp[1]] } : kp \in KeyPatterns }

\* the captures of a text, listed pattern by pattern
CaptureLists(n) ==
    { cs \in BoundedSeqs(Captures, n) :
        \A i \in 1..(Len(cs) - 1) :
            key_pattern_index(cs[i][1]) <= key_pattern_index(cs[i + 1][1]) }

\* a text titled as an allocation agreement, with the captures cs
FieldText(cs) ==
    [ MkText([ len |-> 120, lead |-> 0, trail |-> 0 ],
             << << <<"allocation_agreement", "title_patterns">>, [ start |-> 0, end |-> 55 ] >> >>)
        EXCEPT !.captured = [ kp \in KeyPatterns |-> HitsOf(cs, kp) ] ]

InitFields ==
    /\ pc = "call"
    /\ \E cs \in CaptureLists(MaxCaptures) : text = FieldText(cs)
    /\ document_id = None
    /\ filename = None
    /\ logLevel = "WARNING"
    /\ fault = "none"
    /\ clock = 0
    /\ outcome = NoOutcome
    /\ OtherIdle

SpecFields == InitFields /\ [][Next]_vars

(***************************************************************************)
(* The context specification: _extract_context applied to one match of a   *)
(* text that is kept character by character (letters, spaces and           *)
(* newlines).                                                              *)
(***************************************************************************)
\* n times the character ch
Chars(ch, n) == [ i \in 1..n |-> ch ]

\* a text longer than two context sizes, with a line break followed by a
\* space between two words in its middle
LongChars ==
    Chars("x", 110) \o <<" ">> \o Chars("x", 6) \o <<"\n", " ">> \o Chars("x", 6)
      \o <<" ">> \o Chars("x", 110)

\* a text shorter than a context size, with whitespace at both ends
ShortChars ==
    <<" ">> \o Chars("x", 3) \o <<" ", " ">> \o Chars("x", 3) \o <<"\n">>

\* the texts with the places and the lengths of the matches tried in them
ContextInputs ==
    { [ text_chars |-> LongChars,
        starts  |-> { 0, 5, 100, 101, 105, 111, 117, 119, 126, 130, 135, 136, 200 },
        lengths |-> { 1, 3, 8, 14, 36, 100 } ],
      [ text_chars |-> ShortChars,
        starts  |-> 0..9,
        lengths |-> 1..4 ] }

InitContext ==
    /\ pc = "context_call"
    /\ \E inp \in ContextInputs : \E s \in inp.starts, l \in inp.lengths :
         /\ s + l <= Len(inp.text_chars)
         /\ m_in = [ text_chars |-> inp.text_chars, start |-> s, end |-> s + l ]
    /\ m_out = 0
    /\ stored = <<>>
    /\ tier = <<>>
    /\ ClassifierIdle

ExtractContext ==
    /\ pc = "context_call"
    /\ m_out' = _extract_context_string(m_in.text_chars, m_in.start, m_in.end)
    /\ pc' = "context_done"
    /\ UNCHANGED <<text, document_id, filename, logLevel, fault, clock, outcome,
                   m_in, stored, tier, patterns, calls, task_vars>>

NextContext == ExtractContext

SpecContext == InitContext /\ [][NextContext]_vars

(***************************************************************************)
(* The score specification: one call of detect_document_type on a long     *)
(* text with enough hits to fill every category of a document type, each   *)
(* hit either early and long (both bonuses) or late and short (none).  The *)
(* hits belong to four document types, whose third categories have the     *)
(* three pairs of multiplier and weight there are: structural (0.9, 0.2),  *)
(* certification (0.9, 0.15) and financial and insurance (0.8, 0.15).      *)
(***************************************************************************)
\* most regex hits in one text of the score specification
MaxScoreMatches == 3

ScoreShape ==
    [ len |-> 120, lead |-> 0, trail |-> 0,
      hits |-> { [ start |-> 0, end |-> 55 ], [ start |-> 40, end |-> 45 ] } ]

ScoreTypes == { "allocation_agreement", "qlici_loan", "qalicb_certification", "insurance" }

\* the lists of HitLists(sh, n) whose hits belong to the given types, built
\* hit by hit
RECURSIVE SortedHitLists(_, _, _)
SortedHitLists(sh, types, n) ==
    IF n = 0 THEN { <<>> }
    ELSE LET shorter == SortedHitLists(sh, types, n - 1)
             pairs   == { y \in Slots \X sh.hits : y[1][1] \in types }
         IN  shorter \cup
             UNION { { Append(ms, x) :
                         x \in { y \in pairs :
                                   ms = <<>> \/ slot_index(ms[Len(ms)][1]) <= slot_index(y[1]) } } :
                     ms \in { l \in shorter : Len(l) = n - 1 } }

InitScore ==
    /\ pc = "call"
    /\ \E ms \in SortedHitLists(ScoreShape, ScoreTypes, MaxScoreMatches) :
         text = MkText(ScoreShape, ms)
    /\ document_id = None
    /\ filename = None
    /\ logLevel = "WARNING"
    /\ fault = "none"
    /\ clock = 0
    /\ outcome = NoOutcome
    /\ OtherIdle

SpecScore == InitScore /\ [][Next]_vars

(***************************************************************************)
(* The repeated-call specification: after its first call the one service   *)
(* instance (detection_service) is called again, with the same text or     *)
(* with another one, under the default logging configuration.              *)
(***************************************************************************)
\* most calls after the first one
MaxCalls == 2

\* a text that classifies as a QLICI loan
LoanText ==
    MkText([ len |-> 120, lead |-> 0, trail |-> 0 ],
           << << <<"qlici_loan", "title_patterns">>, [ start |-> 0, end |-> 55 ] >> >>)

\* the texts of the calls made in between
OtherTexts ==
    { MkText([ len |-> 10, lead |-> 10, trail |-> 0 ], <<>>), LoanText, NoneText }

InitRepeat ==
    /\ pc = "call"
    /\ TextIs(text, MaxErrMatches, FALSE)
    /\ document_id = None
    /\ filename = None
    /\ logLevel = "WARNING"
    /\ fault = "none"
    /\ clock = 0
    /\ outcome = NoOutcome
    /\ OtherIdle

\* a later call of detect_document_type on the same instance
DetectNext ==
    /\ pc = "done"
    /\ Len(calls) < MaxCalls
    /\ \E t \in { text } \cup OtherTexts :
         \E o \in { detect_document_type(t, document_id, filename, logLevel, fault, clock) } :
            calls' = Append(calls, [ text_content |-> t, outcome |-> o ])
    /\ clock' = clock + 1
    /\ UNCHANGED <<pc, text, document_id, filename, logLevel, fault, outcome,
                   m_in, m_out, stored, tier, patterns, task_vars>>

NextRepeat == Detect \/ DetectNext

SpecRepeat == InitRepeat /\ [][NextRepeat]_vars

(***************************************************************************)
(* document_tasks.py: the Celery tasks.  One attempt of a task is one      *)
(* step.  The logger of the module is the standard library logger, called  *)
(* with keyword arguments like the one of the detection service.           *)
(***************************************************************************)
\* most task messages sent to the queue in one behaviour
MaxTasks == 2

QUICK == "process_document_quick_detection"

TYPE == "process_document_type_detection"

LAYOUT == "process_document_layout_analysis"

\* @celery_app.task(bind=True, max_retries=...)
max_retries == [ process_document_quick_detection |-> 3,
                 process_document_type_detection  |-> 2 ]

\* what the environment lets fail in one attempt: nothing; get_document; every
\* database call; the update to processing; the direct download; the direct
\* download and the one by public URL; the OCR or layout call of Azure; the
\* update with the results; that update and the update to error after it; the
\* audit log
TaskFaults == { "none", "lookup", "database_down", "set_processing", "download_direct",
                "download", "ocr", "store", "store_down", "audit" }

\* the faults that touch a step of the type detection and of the layout task
TypeFaults == { "none", "lookup", "store", "audit" }

LayoutFaults == { "none", "lookup", "ocr", "store" }

\* the updates to error made while an attempt cleans up fail as well
cleanup_fails(f) == f \in { "database_down", "store_down" }

\* process_document_quick_detection.delay(document_id, user_id)
Message(name, id) == [ name |-> name, id |-> id, retries |-> 0, countdown |-> 0 ]

\* database_service.get_document raises: the query fails, or Document(**row)
\* rejects an ocr_status that is no value of OcrStatus
get_document_raises(status, f) ==
    \/ f \in { "lookup", "database_down" }
    \/ status # Absent /\ status \notin OcrStatusValues

\* where a try block of a task ends
Raised(exc, status, index, ocr, detection) ==
    [ kind |-> "raise", exc |-> exc, ocr_status |-> status, parsed_index |-> index,
      ocr |-> ocr, detection |-> detection ]

Returned(status, index, ocr, detection) ==
    [ kind |-> "return", exc |-> None, ocr_status |-> status, parsed_index |-> index,
      ocr |-> ocr, detection |-> detection ]

\* the fallback DocumentTypeResult of the quick detection task
fallback_detection_result(now) ==
    [ document_type        |-> UNKNOWN,
      confidence           |-> 0,
      primary_indicators   |-> <<>>,
      secondary_indicators |-> <<>>,
      metadata  |-> [ keys |-> {"detection_timestamp", "detection_failed", "failure_reason"},
                      detection_timestamp |-> now ],
      reasoning |-> [ kind |-> "detection_failed" ] ]

\* the "detection_results" entry a task builds from a DocumentTypeResult
detection_results_entry(detection_result) ==
    [ nonempty |-> TRUE, has_confidence |-> TRUE,
      confidence             |-> detection_result.confidence,
      document_type_detected |-> detection_result.document_type,
      primary_indicators     |-> detection_result.primary_indicators,
      secondary_indicators   |-> detection_result.secondary_indicators,
      detection_failed       |-> "detection_failed" \in detection_result.metadata.keys,
      user_confirmed         |-> FALSE ]

history_entry(stage, request) == [ stage |-> stage, status |-> "completed", task_id |-> request.id ]

\* Step 6 of the quick detection task: a new parsed_index
quick_parsed_index(detection_result, request) ==
    [ null |-> FALSE,
      keys |-> { "ocr_results", "detection_results", "processing_history" },
      detection_results  |-> detection_results_entry(detection_result),
      processing_history |-> << history_entry("quick_detection", request) >> ]

\* Step 5 of the quick detection task: len(full_text), then the classifier
quick_detect(txt, doc_id, fname, level, flt, now) ==
    IF txt.none THEN Raise(NoneHasNoLen, 0)
    ELSE detect_document_type(txt, doc_id, fname, level, flt, now)

\* the try block of process_document_quick_detection (Steps 1 to 8), where d
\* is what Step 5 gets from the classifier; the logger.info calls in it are
\* reached only when INFO is disabled
quick_try(request, status, index, d, level, f, now) ==
    IF get_document_raises(status, f) THEN Raised("DatabaseError", status, index, FALSE, "not_reached")
    ELSE IF status = Absent
    THEN Raised(IF logger_call_raises(level, "ERROR") THEN "TypeError"
                ELSE "DocumentProcessingError", status, index, FALSE, "not_reached")
    ELSE IF f = "set_processing" THEN Raised("DatabaseError", status, index, FALSE, "not_reached")
    ELSE IF f \in { "download_direct", "download" } /\ logger_call_raises(level, "WARNING")
    THEN Raised("TypeError", OcrStatus.PROCESSING, index, FALSE, "not_reached")
    ELSE IF f = "download"
    THEN IF logger_call_raises(level, "ERROR")
         THEN Raised("TypeError", OcrStatus.PROCESSING, index, FALSE, "not_reached")
         ELSE Raised("StorageError", OcrStatus.ERROR, index, FALSE, "not_reached")
    ELSE IF f = "ocr"
    THEN IF logger_call_raises(level, "ERROR")
         THEN Raised("TypeError", OcrStatus.PROCESSING, index, FALSE, "not_reached")
         ELSE Raised("OCRProcessingError", OcrStatus.ERROR, index, FALSE, "not_reached")
    ELSE
      LET detection == IF d.kind = "raise" THEN "raised" ELSE "returned"
          detection_result == IF d.kind = "raise" THEN fallback_detection_result(now)
                              ELSE d.result
          new_index == quick_parsed_index(detection_result, request)
      IN  IF d.kind = "raise" /\ logger_call_raises(level, "WARNING")
          THEN Raised("TypeError", OcrStatus.PROCESSING, index, TRUE, detection)
          ELSE IF f \in { "store", "store_down" }
          THEN IF logger_call_raises(level, "ERROR")
               THEN Raised("TypeError", OcrStatus.PROCESSING, index, TRUE, detection)
               ELSE Raised("DatabaseError",
                           IF cleanup_fails(f) THEN OcrStatus.PROCESSING ELSE OcrStatus.ERROR,
                           index, TRUE, detection)
          ELSE IF f = "audit" /\ logger_call_raises(level, "WARNING")
          THEN Raised("TypeError", OcrStatus.COMPLETED, new_index, TRUE, detection)
          ELSE Returned(OcrStatus.COMPLETED, new_index, TRUE, detection)

\* what an attempt leaves: the row, and the state Celery records for the task
Attempt(b, state, exc, status) ==
    [ b EXCEPT !.kind = state, !.exc = exc, !.ocr_status = status ]

\* a delay that grows by 300 seconds with every retry
quick_retry_delay_linear(retries) == Min(300 * (retries + 1), 1800)

\* min(300 * (2 ** self.request.retries), 1800)
quick_retry_delay(retries) == Min(300 * (2 ^ retries), 1800)

\* the except clause of process_document_quick_detection: logger.error, then
\* self.retry below max_retries, else the update to error and a bare raise
quick_except(request, b, level, f) ==
    IF logger_call_raises(level, "ERROR") THEN Attempt(b, "FAILURE", "TypeError", b.ocr_status)
    ELSE IF request.retries < max_retries[QUICK] THEN Attempt(b, "RETRY", b.exc, b.ocr_status)
    ELSE Attempt(b, "FAILURE", b.exc,
                 IF cleanup_fails(f) \/ b.ocr_status = Absent THEN b.ocr_status
                 ELSE OcrStatus.ERROR)

\* one attempt of the task; the logger.info call before the try statement
\* raises when INFO is enabled
process_document_quick_detection(request, status, index, d, level, f, now) ==
    IF logger_call_raises(level, "INFO")
    THEN Attempt(Raised("TypeError", status, index, FALSE, "not_reached"),
                 "FAILURE", "TypeError", status)
    ELSE LET b == quick_try(request, status, index, d, level, f, now)
         IN  IF b.kind = "return" THEN Attempt(b, "SUCCESS", None, b.ocr_status)
             ELSE quick_except(request, b, level, f)

\* the try block of process_document_type_detection, where d is what the
\* classifier gives for the stored text
type_try(request, status, index, txt, d, level, f) ==
    IF get_document_raises(status, f) THEN Raised("DatabaseError", status, index, FALSE, "not_reached")
    ELSE IF status = Absent
    THEN Raised("DocumentProcessingError", status, index, FALSE, "not_reached")
    ELSE IF index.null \/ index.keys = {} \/ "ocr_results" \notin index.keys
    THEN Raised("DocumentProcessingError", status, index, FALSE, "not_reached")
    ELSE IF txt.none \/ txt.len = 0 \/ stripped_len(txt) < 50
    THEN Raised("DocumentProcessingError", status, index, FALSE, "not_reached")
    ELSE
      LET new_index ==
              [ index EXCEPT
                  !.keys = @ \cup { "detection_results", "processing_history" },
                  !.detection_results  = detection_results_entry(d.result),
                  !.processing_history = Append(@, history_entry("type_detection", request)) ]
      IN  IF d.kind = "raise" THEN Raised(d.exc.type, status, index, FALSE, "raised")
          ELSE IF f \in { "store", "store_down" }
          THEN Raised("DatabaseError", status, index, FALSE, "returned")
          ELSE IF f = "audit" /\ logger_call_raises(level, "WARNING")
          THEN Raised("TypeError", status, new_index, FALSE, "returned")
          ELSE Returned(status, new_index, FALSE, "returned")

\* 60 * (self.request.retries + 1)
type_retry_delay(retries) == 60 * (retries + 1)

\* an except clause that marks the document as failed when the retries are
\* used up
type_except_marks_error(request, b, level) ==
    IF logger_call_raises(level, "ERROR") THEN Attempt(b, "FAILURE", "TypeError", b.ocr_status)
    ELSE IF request.retries < max_retries[TYPE] THEN Attempt(b, "RETRY", b.exc, b.ocr_status)
    ELSE Attempt(b, "FAILURE", b.exc, OcrStatus.ERROR)

\* the except clause of process_document_type_detection
type_except(request, b, level) ==
    IF logger_call_raises(level, "ERROR") THEN Attempt(b, "FAILURE", "TypeError", b.ocr_status)
    ELSE IF request.retries < max_retries[TYPE] THEN Attempt(b, "RETRY", b.exc, b.ocr_status)
    ELSE Attempt(b, "FAILURE", b.exc, b.ocr_status)

process_document_type_detection(request, status, index, txt, d, level, f) ==
    IF logger_call_raises(level, "INFO")
    THEN Attempt(Raised("TypeError", status, index, FALSE, "not_reached"),
                 "FAILURE", "TypeError", status)
    ELSE LET b == type_try(request, status, index, txt, d, level, f)
         IN  IF b.kind = "return" THEN Attempt(b, "SUCCESS", None, b.ocr_status)
             ELSE type_except(request, b, level)

\* the try block of process_document_layout_analysis
layout_try(request, status, index, f) ==
    IF get_document_raises(status, f) THEN Raised("DatabaseError", status, index, FALSE, "not_reached")
    ELSE IF status = Absent
    THEN Raised("DocumentProcessingError", status, index, FALSE, "not_reached")
    ELSE IF status \notin { OcrStatus.COMPLETED, OcrStatus.DONE }
    THEN Raised("DocumentProcessingError", status, index, FALSE, "not_reached")
    ELSE IF f = "ocr" THEN Raised("AzureDocumentIntelligenceError", status, index, FALSE, "not_reached")
    ELSE IF f \in { "store", "store_down" }
    THEN Raised("DatabaseError", status, index, TRUE, "not_reached")
    ELSE Returned(status,
                  [ index EXCEPT
                      !.null = FALSE,
                      !.keys = @ \cup { "layout_analysis", "processing_history" },
                      !.processing_history = Append(@, history_entry("layout_analysis", request)) ],
                  TRUE, "not_reached")

\* the task has no retry: its except clause logs and raises again
process_document_layout_analysis(request, status, index, level, f) ==
    IF logger_call_raises(level, "INFO")
    THEN Attempt(Raised("TypeError", status, index, FALSE, "not_reached"),
                 "FAILURE", "TypeError", status)
    ELSE LET b == layout_try(request, status, index, f)
         IN  IF b.kind = "return" THEN Attempt(b, "SUCCESS", None, b.ocr_status)
             ELSE Attempt(b, "FAILURE",
                          IF logger_call_raises(level, "ERROR") THEN "TypeError" ELSE b.exc,
                          b.ocr_status)

\* Celery after an attempt: the message is consumed, and self.retry sends it
\* again with one more retry
Finish(m, a, f, countdown) ==
    /\ ocr_status' = a.ocr_status
    /\ parsed_index' = a.parsed_index
    /\ queue' = (queue \ { m }) \cup
                (IF a.kind = "RETRY"
                 THEN { [ m EXCEPT !.retries = @ + 1, !.countdown = countdown ] }
                 ELSE {})
    /\ run' = [ task |-> m.name, id |-> m.id, retries |-> m.retries, state |-> a.kind,
                exc |-> a.exc, fault |-> f, ocr |-> a.ocr, detection |-> a.detection,
                ocr_status |-> a.ocr_status, parsed_index |-> a.parsed_index ]
    /\ UNCHANGED <<pc, text, document_id, filename, logLevel, fault, clock, outcome,
                   m_in, m_out, stored, tier, patterns, calls, task_seq,
                   running, succeeded>>

QuickDetectionTask ==
    /\ pc = "serving"
    /\ \E m \in queue, f \in TaskFaults :
         /\ m.name = QUICK
         /\ \E d \in { quick_detect(text, document_id, filename, logLevel, fault, clock) } :
            \E a \in { process_document_quick_detection(m, ocr_status, parsed_index, d,
                                                         logLevel, f, clock) } :
              Finish(m, a, f, quick_retry_delay(m.retries))

TypeDetectionTask ==
    /\ pc = "serving"
    /\ \E m \in queue, f \in TypeFaults :
         /\ m.name = TYPE
         /\ \E d \in { quick_detect(text, document_id, filename, logLevel, fault, clock) } :
            \E a \in { process_document_type_detection(m, ocr_status, parsed_index, text, d,
                                                        logLevel, f) } :
              Finish(m, a, f, type_retry_delay(m.retries))

LayoutAnalysisTask ==
    /\ pc = "serving"
    /\ \E m \in queue, f \in LayoutFaults :
         /\ m.name = LAYOUT
         /\ \E a \in { process_document_layout_analysis(m, ocr_status, parsed_index,
                                                         logLevel, f) } :
              Finish(m, a, f, 0)

\* a client sends one of the two tasks that no endpoint queues
SendTask ==
    /\ pc = "serving"
    /\ ocr_status # Absent
    /\ task_seq < MaxTasks
    /\ \E name \in { TYPE, LAYOUT } : queue' = queue \cup { Message(name, task_seq + 1) }
    /\ task_seq' = task_seq + 1
    /\ UNCHANGED <<pc, text, document_id, filename, logLevel, fault, clock, outcome,
                   m_in, m_out, stored, tier, patterns, calls,
                   ocr_status, parsed_index, run, running, succeeded>>

(***************************************************************************)
(* The endpoints that write the row: document_processing.py (upload,       *)
(* reprocess) and documents.py (start-detection, validate,                 *)
(* confirm-detection).  The upload of documents.py writes no row: it calls *)
(* supabase_service.create_document_record with a user_id that the method  *)
(* does not take, and answers 500.                                         *)
(***************************************************************************)
\* an endpoint answers with an HTTP status code; it may have written the row
\* and queued a task
Respond(status, index, sent, code) ==
    /\ ocr_status' = status
    /\ parsed_index' = index
    /\ queue' = queue \cup sent
    /\ task_seq' = task_seq + Cardinality(sent)
    /\ UNCHANGED <<pc, text, document_id, filename, logLevel, fault, clock, outcome,
                   m_in, m_out, stored, tier, patterns, calls, run, running, succeeded>>

\* document_processing.upload_document: database_service.create_document, then
\* process_document_quick_detection.delay
UploadDocument ==
    /\ pc = "serving"
    /\ ocr_status = Absent
    /\ task_seq < MaxTasks
    /\ Respond(OcrStatus.QUEUED, NoIndex, { Message(QUICK, task_seq + 1) }, 200)

\* documents.start_document_detection
StartDocumentDetection ==
    /\ pc = "serving"
    /\ IF ocr_status = Absent THEN Respond(ocr_status, parsed_index, {}, 404)
       ELSE IF ocr_status \notin { "processing", "uploaded" }
       THEN Respond(ocr_status, parsed_index, {}, 400)
       ELSE /\ task_seq < MaxTasks
            /\ Respond("detecting", parsed_index, { Message(QUICK, task_seq + 1) }, 200)

\* documents.validate_document: no lookup; an update that matches no row
\* changes nothing
ValidateDocument ==
    /\ pc = "serving"
    /\ Respond(IF ocr_status = Absent THEN Absent ELSE "validated", parsed_index, {}, 200)

\* documents.confirm_detection_result; document.get('parsed_index', {}) is None
\* for a row whose parsed_index is NULL, and the membership test raises
ConfirmDetectionResult ==
    /\ pc = "serving"
    /\ \E proceed_with_processing \in BOOLEAN :
         IF ocr_status = Absent THEN Respond(ocr_status, parsed_index, {}, 404)
         ELSE IF parsed_index.null THEN Respond(ocr_status, parsed_index, {}, 500)
         ELSE Respond(IF proceed_with_processing THEN "processing" ELSE "detection_complete",
                      [ parsed_index EXCEPT
                          !.keys = @ \cup { "detection_results" },
                          !.detection_results.nonempty = TRUE,
                          !.detection_results.user_confirmed = TRUE ],
                      {}, 200)

\* document_processing.reprocess_document
ReprocessDocument ==
    /\ pc = "serving"
    /\ IF ocr_status = Absent THEN Respond(ocr_status, parsed_index, {}, 404)
       ELSE IF get_document_raises(ocr_status, "none")
       THEN Respond(ocr_status, parsed_index, {}, 500)
       ELSE /\ task_seq < MaxTasks
            /\ Respond(OcrStatus.QUEUED, parsed_index, { Message(QUICK, task_seq + 1) }, 200)

\* the OCR texts of the task specification: blank, and long with the title
\* of an allocation agreement
BlankText == MkText([ len |-> 10, lead |-> 10, trail |-> 0 ], <<>>)

TitledText ==
    MkText([ len |-> 120, lead |-> 0, trail |-> 0 ],
           << << <<"allocation_agreement", "title_patterns">>, [ start |-> 0, end |-> 55 ] >> >>)

InitTask ==
    /\ pc = "serving"
    /\ \/ text = BlankText /\ fault = "none"
       \/ text = TitledText /\ fault \in { "none", "metadata" }
    /\ document_id = "uuid-1"
    /\ filename = "agreement.pdf"
    /\ logLevel \in LogLevels
    /\ clock = 0
    /\ outcome = NoOutcome
    /\ m_in = <<>>
    /\ m_out = 0
    /\ stored = <<>>
    /\ tier = <<>>
    /\ ServiceIdle
    /\ TaskIdle

NextTask ==
    \/ UploadDocument
    \/ StartDocumentDetection
    \/ ValidateDocument
    \/ ConfirmDetectionResult
    \/ ReprocessDocument
    \/ SendTask
    \/ QuickDetectionTask
    \/ TypeDetectionTask
    \/ LayoutAnalysisTask

SpecTask == InitTask /\ [][NextTask]_vars

(***************************************************************************)
(* The overlap specification: the standalone tasks run on a document that  *)
(* a quick detection has completed, on workers that run at the same time.  *)
(* A run reads the row (get_document), works on what it read and writes    *)
(* parsed_index back (update_document); other runs take steps in between.  *)
(***************************************************************************)
\* get_document of a standalone task: the run holds the row as it read it
BeginTask ==
    /\ pc = "serving"
    /\ \E m \in queue :
         /\ m.name \in { TYPE, LAYOUT }
         /\ \A w \in running : w.request # m
         /\ running' = running \cup { [ request |-> m, ocr_status |-> ocr_status,
                                        parsed_index |-> parsed_index ] }
    /\ UNCHANGED <<pc, text, document_id, filename, logLevel, fault, clock, outcome,
                   m_in, m_out, stored, tier, patterns, calls,
                   ocr_status, parsed_index, queue, task_seq, run, succeeded>>

\* the rest of an attempt a on the row that the run w read: when the attempt
\* reached update_document, DocumentUpdate(parsed_index=...) puts the run's
\* parsed_index in the place of the row's
EndTask(w, a, f, countdown) ==
    /\ parsed_index' = IF a.parsed_index # w.parsed_index THEN a.parsed_index ELSE parsed_index
    /\ queue' = (queue \ { w.request }) \cup
                (IF a.kind = "RETRY"
                 THEN { [ w.request EXCEPT !.retries = @ + 1, !.countdown = countdown ] }
                 ELSE {})
    /\ running' = running \ { w }
    /\ succeeded' = IF a.kind = "SUCCESS"
                    THEN succeeded \cup { [ name |-> w.request.name, id |-> w.request.id ] }
                    ELSE succeeded
    /\ run' = [ task |-> w.request.name, id |-> w.request.id, retries |-> w.request.retries,
                state |-> a.kind, exc |-> a.exc, fault |-> f, ocr |-> a.ocr,
                detection |-> a.detection, ocr_status |-> ocr_status,
                parsed_index |-> parsed_index' ]
    /\ UNCHANGED <<pc, text, document_id, filename, logLevel, fault, clock, outcome,
                   m_in, m_out, stored, tier, patterns, calls, ocr_status, task_seq>>

EndTypeDetection ==
    /\ pc = "serving"
    /\ \E w \in running, f \in TypeFaults :
         /\ w.request.name = TYPE
         /\ \E d \in { quick_detect(text, document_id, filename, logLevel, fault, clock) } :
            \E a \in { process_document_type_detection(w.request, w.ocr_status, w.parsed_index,
                                                        text, d, logLevel, f) } :
              EndTask(w, a, f, type_retry_delay(w.request.retries))

EndLayoutAnalysis ==
    /\ pc = "serving"
    /\ \E w \in running, f \in LayoutFaults :
         /\ w.request.name = LAYOUT
         /\ \E a \in { process_document_layout_analysis(w.request, w.ocr_status, w.parsed_index,
                                                         logLevel, f) } :
              EndTask(w, a, f, 0)

\* the row after a quick detection of the text completed; the tasks sent
\* from here on are counted from 1
InitOverlap ==
    /\ pc = "serving"
    /\ text \in { BlankText, TitledText }
    /\ fault = "none"
    /\ document_id = "uuid-1"
    /\ filename = "agreement.pdf"
    /\ logLevel \in { "WARNING", "CRITICAL" }
    /\ clock = 1
    /\ outcome = NoOutcome
    /\ m_in = <<>>
    /\ m_out = 0
    /\ stored = <<>>
    /\ tier = <<>>
    /\ ServiceIdle
    /\ ocr_status = OcrStatus.COMPLETED
    /\ \E d \in { quick_detect(text, document_id, filename, logLevel, fault, 0) } :
         parsed_index = quick_parsed_index(d.result, Message(QUICK, 0))
    /\ queue = {}
    /\ task_seq = 0
    /\ run = NoRun
    /\ running = {}
    /\ succeeded = {}

NextOverlap ==
    \/ SendTask
    \/ BeginTask
    \/ EndTypeDetection
    \/ EndLayoutAnalysis

SpecOverlap == InitOverlap /\ [][NextOverlap]_vars

(***************************************************************************)
(* The worker specification: the tasks alone, on a document that was       *)
(* uploaded through document_processing.py, with no other endpoint called. *)
(***************************************************************************)
\* a client sends the type detection with the id of a document that has no
\* row (yet)
SendTaskNoDocument ==
    /\ pc = "serving"
    /\ ocr_status = Absent
    /\ task_seq < MaxTasks
    /\ queue' = queue \cup { Message(TYPE, task_seq + 1) }
    /\ task_seq' = task_seq + 1
    /\ UNCHANGED <<pc, text, document_id, filename, logLevel, fault, clock, outcome,
                   m_in, m_out, stored, tier, patterns, calls,
                   ocr_status, parsed_index, run, running, succeeded>>

NextWorker ==
    \/ UploadDocument
    \/ SendTask
    \/ SendTaskNoDocument
    \/ QuickDetectionTask
    \/ TypeDetectionTask
    \/ LayoutAnalysisTask

SpecWorker == InitTask /\ [][NextWorker]_vars

(***************************************************************************)
(* The start specification: documents.start_document_detection next to the *)
(* worker that runs the task it queues.  The endpoint reads the row,       *)
(* queues the task (.delay) and only then awaits the write of 'detecting'; *)
(* the worker may take the message in between.                             *)
(***************************************************************************)
START == "start_document_detection"

\* supabase_service.get_document, the two checks and
\* process_document_quick_detection.delay; 404 and 400 change nothing
BeginStartDetection ==
    /\ pc = "serving"
    /\ task_seq < MaxTasks
    /\ IF ocr_status = Absent \/ ocr_status \notin { "processing", "uploaded" }
       THEN UNCHANGED <<queue, task_seq, running>>
       ELSE /\ queue' = queue \cup { Message(QUICK, task_seq + 1) }
            /\ task_seq' = task_seq + 1
            /\ running' = running \cup { [ request |-> Message(START, task_seq + 1),
                                           ocr_status |-> ocr_status,
                                           parsed_index |-> parsed_index ] }
    /\ UNCHANGED <<pc, text, document_id, filename, logLevel, fault, clock, outcome,
                   m_in, m_out, stored, tier, patterns, calls,
                   ocr_status, parsed_index, run, succeeded>>

\* supabase_service.update_document_status(document_id, 'detecting') and the
\* response; an update that matches no row changes nothing
EndStartDetection ==
    /\ pc = "serving"
    /\ \E w \in running :
         /\ w.request.name = START
         /\ ocr_status' = IF ocr_status = Absent THEN Absent ELSE "detecting"
         /\ running' = running \ { w }
    /\ UNCHANGED <<pc, text, document_id, filename, logLevel, fault, clock, outcome,
                   m_in, m_out, stored, tier, patterns, calls,
                   parsed_index, queue, task_seq, run, succeeded>>

\* a row that the endpoint accepts or rejects: one that an upload and a
\* failed or finished quick detection left, or that a client uploaded
InitStart ==
    /\ pc = "serving"
    /\ \/ text = BlankText /\ fault = "none"
       \/ text = TitledText /\ fault \in { "none", "metadata" }
    /\ document_id = "uuid-1"
    /\ filename = "agreement.pdf"
    /\ logLevel \in LogLevels
    /\ clock = 0
    /\ outcome = NoOutcome
    /\ m_in = <<>>
    /\ m_out = 0
    /\ stored = <<>>
    /\ tier = <<>>
    /\ ServiceIdle
    /\ ocr_status \in { OcrStatus.PROCESSING, OcrStatus.UPLOADED, OcrStatus.QUEUED,
                        OcrStatus.ERROR }
    /\ parsed_index = NoIndex
    /\ queue = {}
    /\ task_seq = 0
    /\ run = NoRun
    /\ running = {}
    /\ succeeded = {}

NextStart ==
    \/ BeginStartDetection
    \/ EndStartDetection
    \/ QuickDetectionTask

SpecStart == InitStart /\ [][NextStart]_vars

(***************************************************************************)
(* Properties.                                                             *)
(***************************************************************************)
returned == pc = "done" /\ outcome.kind = "return"

raised == pc = "done" /\ outcome.kind = "raise"

res == outcome.result

CandidateTypes == { get_all_document_types[i] : i \in 1..Len(get_all_document_types) }

\* the length of the text without its whitespace margins
TrimmedLength == IF text.lead + text.trail >= text.len THEN 0
                 ELSE text.len - text.lead - text.trail

ShortText == ~text.none /\ (text.len = 0 \/ TrimmedLength < 50)

LongText == ~text.none /\ text.len > 0 /\ TrimmedLength >= 50

scoreOf(ty) == _score_document_type(text, ty).score

classified == returned /\ res.document_type # UNKNOWN

\* C1: every returned result has a confidence between 0.0 and 1.0, and a
\* confidence of exactly 0.0 when its document type is unknown.
C1_ConfidenceBounds ==
    returned =>
        /\ res.confidence >= 0
        /\ res.confidence <= 1000000
        /\ (res.document_type = UNKNOWN => res.confidence = 0)

\* a long text whose best score is positive is returned as unknown
C1_Witness ==
    /\ returned
    /\ LongText
    /\ res.document_type = UNKNOWN
    /\ res.confidence = 0
    /\ \E ty \in CandidateTypes : scoreOf(ty) > 0

C4_BestTypeFirstWins ==
    (returned /\ LongText /\ \E ty \in CandidateTypes : scoreOf(ty) >= 200000) =>
        /\ res.document_type \in CandidateTypes
        /\ res.confidence = scoreOf(res.document_type)
        /\ \A ty \in CandidateTypes :
              /\ scoreOf(ty) <= res.confidence
              /\ scoreOf(ty) = res.confidence =>
                    type_index(res.document_type) <= type_index(ty)

\* two types tie on the maximum score
C4_Witness ==
    /\ classified
    /\ \E ty \in CandidateTypes :
          /\ ty # res.document_type
          /\ scoreOf(ty) = res.confidence

\* the multiplier of a category, in tenths
ClaimedMultiplier(c) ==
    CASE c = "title_patterns" -> 12
      [] c = "key_terms" -> 10
      [] c \in { "structural_patterns", "certification_patterns" } -> 9
      [] c \in { "financial_patterns", "commitment_patterns", "reporting_patterns",
                 "legal_patterns", "insurance_patterns" } -> 8
      [] OTHER -> 10

ClaimedPositionBonus(start, n) ==
    IF 10 * start < n THEN 100 ELSE IF 10 * start < 3 * n THEN 50 ELSE 0

ClaimedLengthBonus(l) == IF l > 50 THEN 100 ELSE IF l > 20 THEN 50 ELSE 0

ClaimedRawConfidence(c, start, end, n) ==
    70 * ClaimedMultiplier(c) + ClaimedPositionBonus(start, n) + ClaimedLengthBonus(end - start)

\* C5: the confidence of a match is min(1.0, 0.7 * m + p + l) for the
\* category multiplier m, the position bonus p and the length bonus l, and
\* lies in [0, 1].
C5_MatchConfidenceFormula ==
    pc = "match_done" =>
        /\ m_out = Min(1000, ClaimedRawConfidence(m_in.pattern_category, m_in.start,
                                                  m_in.end, m_in.text_len))
        /\ m_out >= 0
        /\ m_out <= 1000

\* a long title match at the start of the text: 0.84 + 0.1 + 0.1 is clamped
C5_Witness ==
    /\ pc = "match_done"
    /\ ClaimedRawConfidence(m_in.pattern_category, m_in.start, m_in.end, m_in.text_len) > 1000
    /\ m_out = 1000

ClaimedWeight(c) ==
    CASE c = "title_patterns" -> 400
      [] c = "key_terms" -> 300
      [] c = "structural_patterns" -> 200
      [] c \in { "financial_patterns", "certification_patterns", "commitment_patterns",
                 "reporting_patterns", "legal_patterns", "insurance_patterns" } -> 150
      [] OTHER -> 100

SetMax(S) == CHOOSE x \in S : \A y \in S : y <= x

\* the confidences of the matches of one category of a type in a text
ConfidencesOf(t, ty, c) ==
    { category_matches(t, ty, c)[i].confidence : i \in 1..Len(t.found[<<ty, c>>]) }

Contribution(t, ty, c) ==
    IF ConfidencesOf(t, ty, c) = {} THEN 0
    ELSE SetMax(ConfidencesOf(t, ty, c)) * ClaimedWeight(c)

ClaimedScore(t, ty) ==
    Min(1000000, Contribution(t, ty, DOCUMENT_PATTERNS[ty][1])
                   + Contribution(t, ty, DOCUMENT_PATTERNS[ty][2])
                   + Contribution(t, ty, DOCUMENT_PATTERNS[ty][3]))

RemoveAt(seq, i) == SubSeq(seq, 1, i - 1) \o SubSeq(seq, i + 1, Len(seq))

\* C6: the score of a type is min(1.0, the sum over its categories with a
\* match of the best match confidence times the category weight); a match
\* that is not the best of its category does not change the score.
C6_ScoreIsWeightedBest ==
    (pc = "done" /\ ~text.none) =>
        /\ \A ty \in CandidateTypes : scoreOf(ty) = ClaimedScore(text, ty)
        /\ classified => res.confidence = ClaimedScore(text, res.document_type)
        /\ SCORING_WEIGHTS_get("other_patterns") = ClaimedWeight("other_patterns")
        /\ \A slot \in Slots : \A i \in 1..Len(text.found[slot]) :
              LET cm == category_matches(text, slot[1], slot[2])
              IN  (\E j \in 1..Len(cm) : j # i /\ cm[j].confidence >= cm[i].confidence) =>
                     _score_document_type([ text EXCEPT !.found[slot] = RemoveAt(@, i) ],
                                          slot[1]).score = scoreOf(slot[1])

\* the winning type has a category whose second match is better than its first
C6_Witness ==
    /\ classified
    /\ \E c \in { DOCUMENT_PATTERNS[res.document_type][i] : i \in 1..3 } :
          LET cm == category_matches(text, res.document_type, c)
          IN  Len(cm) >= 2 /\ cm[2].confidence > cm[1].confidence

\* every match of a type, category by category, in discovery order
AllMatchesOf(t, ty) ==
    category_matches(t, ty, DOCUMENT_PATTERNS[ty][1])
      \o category_matches(t, ty, DOCUMENT_PATTERNS[ty][2])
      \o category_matches(t, ty, DOCUMENT_PATTERNS[ty][3])

\* C7: for a classified result primary_indicators is the winning type's
\* matches of confidence > 0.5 and secondary_indicators those of confidence
\* <= 0.5, each in discovery order; the lists are disjoint and together hold
\* every match of the winning type, not only the best of each category.
C7_IndicatorSplit ==
    classified =>
        LET all == AllMatchesOf(text, res.document_type)
        IN  /\ res.primary_indicators = SelectSeq(all, LAMBDA m : m.confidence > 500)
            /\ res.secondary_indicators = SelectSeq(all, LAMBDA m : m.confidence <= 500)
            /\ Len(res.primary_indicators) + Len(res.secondary_indicators) = Len(all)
            /\ \A i \in 1..Len(res.primary_indicators) :
                  res.primary_indicators[i].confidence > 500
            /\ \A i \in 1..Len(res.secondary_indicators) :
                  res.secondary_indicators[i].confidence <= 500

\* the winning type has two matches in one category, both reported
C7_Witness ==
    /\ classified
    /\ Len(res.primary_indicators) >= 2
    /\ res.primary_indicators[1].pattern_type = res.primary_indicators[2].pattern_type
    /\ res.primary_indicators[1].confidence # res.primary_indicators[2].confidence

\* C8: the tiering of stored detection results is total: confidence >= 0.9
\* is high without confirmation or countdown, 0.7 <= confidence < 0.9 is
\* medium with confirmation and a countdown of 10, confidence < 0.7 is low
\* with confirmation and no countdown.
C8_TieringTotal ==
    (pc = "tier_done" /\ stored.nonempty) =>
        /\ Len(tier.detection_result) = 1
        /\ LET c == IF stored.has_confidence THEN stored.confidence ELSE 0
               d == tier.detection_result[1]
           IN  /\ c >= 900000 =>
                     /\ d.confidence_level = "high"
                     /\ ~d.requires_confirmation
                     /\ d.auto_process_countdown = <<>>
               /\ (c >= 700000 /\ c < 900000) =>
                     /\ d.confidence_level = "medium"
                     /\ d.requires_confirmation
                     /\ d.auto_process_countdown = <<10>>
               /\ c < 700000 =>
                     /\ d.confidence_level = "low"
                     /\ d.requires_confirmation
                     /\ d.auto_process_countdown = <<>>

\* a stored confidence of exactly 0.9 is tiered high
C8_Witness ==
    /\ pc = "tier_done"
    /\ stored.nonempty
    /\ stored.has_confidence
    /\ stored.confidence = 900000
    /\ tier.detection_result[1].confidence_level = "high"

\* C9: an exception raised inside detect_document_type leaves the call only
\* as a DocumentProcessingError whose detail carries the original error and
\* whose context carries the document id, when one was passed.
C9_OnlyDocumentProcessingError ==
    raised =>
        /\ outcome.exc.type = "DocumentProcessingError"
        /\ outcome.exc.detail.message = "Document type detection failed"
        /\ outcome.exc.context.document_id =
              (IF document_id = None THEN None ELSE "00000000-0000-0000-0000-000000000001")

\* C10: when metadata extraction fails for a text whose best score is >= 0.2
\* the call still returns the winning type with its confidence and reasoning,
\* and a metadata object that flags the failure.
C10_MetadataFailureDegrades ==
    (/\ pc = "done"
     /\ fault = "metadata"
     /\ LongText
     /\ ~isEnabledFor(logLevel, "INFO")
     /\ \E ty \in CandidateTypes : scoreOf(ty) >= 200000) =>
        /\ outcome.kind = "return"
        /\ res.document_type \in CandidateTypes
        /\ res.confidence = scoreOf(res.document_type)
        /\ res.reasoning.kind = "classified"
        /\ "classification_failed" \in res.metadata.keys

(***************************************************************************)
(* Properties of the tasks.                                                *)
(***************************************************************************)
\* an attempt of the quick detection task has ended
quick_attempt == run.task = QUICK

\* the attempt did not return
attempt_failed == run.state # "SUCCESS"

\* C11: in process_document_quick_detection a failed attempt made after fewer
\* than 3 retries is retried; a failed attempt made after the 3rd retry sets
\* ocr_status to error and ends the run with the failure; so a run ends after
\* at most 4 attempts and leaves the document completed or in error.
C11_RetryCeiling ==
    quick_attempt =>
        /\ run.retries <= 3
        /\ (attempt_failed /\ run.retries < 3) => run.state = "RETRY"
        /\ (attempt_failed /\ run.retries = 3) =>
               (run.state = "FAILURE" /\ run.ocr_status = "error")
        /\ run.state \in { "SUCCESS", "FAILURE" } => run.ocr_status \in { "completed", "error" }

\* C12: in process_document_quick_detection, when detect_document_type raises
\* after the OCR succeeded (and nothing else fails), the attempt succeeds: it
\* stores the OCR results with a placeholder detection result (unknown,
\* confidence 0.0, no indicators) and leaves the document completed.
C12_DetectionFailureFallsBack ==
    (quick_attempt /\ run.ocr /\ run.detection = "raised" /\ run.fault = "none") =>
        /\ run.state = "SUCCESS"
        /\ run.ocr_status = "completed"
        /\ "ocr_results" \in run.parsed_index.keys
        /\ run.parsed_index.detection_results.document_type_detected = UNKNOWN
        /\ run.parsed_index.detection_results.confidence = 0
        /\ run.parsed_index.detection_results.primary_indicators = <<>>
        /\ run.parsed_index.detection_results.secondary_indicators = <<>>

IsPrefix(s, t) == Len(s) <= Len(t) /\ SubSeq(t, 1, Len(s)) = s

\* this step is an attempt of a task that succeeds
task_succeeds ==
    \E m \in queue : m \notin queue' /\ run'.id = m.id /\ run'.state = "SUCCESS"

\* C13: a successful run of the quick detection, the type detection or the
\* layout analysis task keeps every key of parsed_index and every entry of
\* processing_history that an earlier run stored: the history only grows.
C13_IndexAccumulates ==
    [][ task_succeeds =>
          /\ parsed_index.keys \subseteq parsed_index'.keys
          /\ IsPrefix(parsed_index.processing_history, parsed_index'.processing_history) ]_vars

\* C14: whatever uploads, start-detection, validate, confirm, reprocess and
\* task operations were made, the ocr_status of an existing document is one
\* of queued, processing, completed, error.
C14_StatusDomain ==
    ocr_status # Absent => ocr_status \in { "queued", "processing", "completed", "error" }

(***************************************************************************)
(* Properties of the repeated calls, the metadata and the reasoning.       *)
(***************************************************************************)
\* two calls end alike: both raise, or both return the same type, confidence
\* and indicator lists
same_answer(a, b) ==
    /\ a.kind = b.kind
    /\ a.kind = "return" =>
          /\ a.result.document_type = b.result.document_type
          /\ a.result.confidence = b.result.confidence
          /\ a.result.primary_indicators = b.result.primary_indicators
          /\ a.result.secondary_indicators = b.result.secondary_indicators

C16_MetadataComplete ==
    returned =>
        /\ res.metadata.keys # {}
        /\ {"detection_timestamp", "extracted_fields"} \subseteq res.metadata.keys

\* C16, amended: every returned result has a non-null metadata object with
\* the detection timestamp of the call; a classified result also has the
\* extracted fields, and an unknown result has only the timestamp, the
\* classification_failed flag and the failure reason.
C16_MetadataByKind ==
    returned =>
        /\ "detection_timestamp" \in res.metadata.keys
        /\ res.metadata.detection_timestamp = clock - 1
        /\ res.document_type # UNKNOWN => "extracted_fields" \in res.metadata.keys
        /\ res.document_type = UNKNOWN =>
              /\ res.metadata.keys
                   = {"detection_timestamp", "classification_failed", "failure_reason"}
              /\ res.metadata.classification_failed

\* a text long enough to be scored stayed below the threshold: its unknown
\* result has a timestamp and no extracted fields
C16_Witness ==
    /\ returned
    /\ res.document_type = UNKNOWN
    /\ stripped_len(text) >= 50
    /\ "detection_timestamp" \in res.metadata.keys
    /\ "extracted_fields" \notin res.metadata.keys

TypeSpecificBlocks ==
    {"allocation_specific", "loan_specific", "certification_specific", "financial_specific"}

\* C17: the metadata of a classified result holds the block of the winning
\* type when that type is allocation_agreement, qlici_loan,
\* qalicb_certification or financial_statement, and no block of another type;
\* for the other four types it holds no type-specific block.
C17_TypeSpecificBlock ==
    classified =>
        res.metadata.keys \cap TypeSpecificBlocks =
            CASE res.document_type = "allocation_agreement" -> {"allocation_specific"}
              [] res.document_type = "qlici_loan"           -> {"loan_specific"}
              [] res.document_type = "qalicb_certification" -> {"certification_specific"}
              [] res.document_type = "financial_statement"  -> {"financial_specific"}
              [] OTHER                                      -> {}

\* a financial statement was classified and its metadata holds the financial
\* block alone
C17_Witness ==
    /\ classified
    /\ res.document_type = "financial_statement"
    /\ res.metadata.keys \cap TypeSpecificBlocks = {"financial_specific"}

\* C18: the reasoning of a classified result ends with a canned sentence
\* exactly when the winning type is one of the four types that get a
\* type-specific metadata block.
C18_FourSentences ==
    classified =>
        (res.reasoning.sentence # <<>>
            <=> res.document_type \in {"allocation_agreement", "qlici_loan",
                                       "qalicb_certification", "financial_statement"})

\* C18, amended: the reasoning of a classified result ends with a canned
\* sentence exactly when the winning type is allocation_agreement, qlici_loan
\* or qalicb_certification; a financial statement gets a type-specific
\* metadata block and no sentence, and the other four types get neither.
C18_ThreeSentences ==
    classified =>
        /\ res.reasoning.sentence =
              CASE res.document_type = "allocation_agreement" ->
                     <<"Key NMTC allocation terms and structures identified.">>
                [] res.document_type = "qlici_loan" ->
                     <<"QLICI loan terms and QALICB compliance requirements detected.">>
                [] res.document_type = "qalicb_certification" ->
                     <<"QALICB certification language and compliance tests found.">>
                [] OTHER -> <<>>
        /\ res.document_type = "financial_statement" =>
              "financial_specific" \in res.metadata.keys

\* a financial statement was classified: its metadata has the financial block
\* and its reasoning has no canned sentence
C18_Witness ==
    /\ classified
    /\ res.document_type = "financial_statement"
    /\ "financial_specific" \in res.metadata.keys
    /\ res.reasoning.sentence = <<>>
    /\ res.reasoning.classified_as = "financial_statement"

\* the label a description starts with
level_of(description) ==
    CASE description = "High - Very confident in document type classification" -> "High"
      [] description = "Medium - Moderately confident, some indicators present" -> "Medium"
      [] description = "Low - Weak indicators, may need human review" -> "Low"
      [] description = "Very Low - Insufficient indicators for reliable classification"
           -> "Very Low"
      [] OTHER -> "none"

\* the label the mapping gives a confidence, in millionths
label_of(c) ==
    IF c >= 700000 THEN "High"
    ELSE IF c >= 400000 THEN "Medium"
    ELSE IF c >= 200000 THEN "Low"
    ELSE "Very Low"

\* C19: the confidence label is a total function of the confidence: High
\* from 0.7, Medium from 0.4 to below 0.7, Low from 0.2 to below 0.4 and
\* Very Low below 0.2; and the label in the reasoning of a classified
\* result is the label of that result's confidence.
C19_ConfidenceLabel ==
    /\ pc = "label_done" => level_of(m_out) = label_of(m_in.confidence)
    /\ classified =>
          level_of(res.reasoning.confidence_level) = label_of(res.confidence)

\* a result was classified with a confidence between 0.4 and 0.7 and its
\* reasoning says Medium
C19_Witness ==
    /\ classified
    /\ res.confidence >= 400000
    /\ res.confidence < 700000
    /\ level_of(res.reasoning.confidence_level) = "Medium"

(***************************************************************************)
(* Properties of the extracted fields.                                     *)
(***************************************************************************)
\* C20: in a classified result every category of metadata.extracted_fields
\* is one of the five field categories and holds a non-empty list of
\* trimmed, non-empty values in which no value occurs twice, also when
\* several patterns of the category capture the same value; a category
\* without a capture is absent.
C20_FieldsDeduplicated ==
    classified =>
        LET extracted_fields == res.metadata.extracted_fields
        IN  /\ DOMAIN extracted_fields \subseteq DOMAIN NMTC_KEY_FIELDS
            /\ \A c \in DOMAIN NMTC_KEY_FIELDS :
                  c \in DOMAIN extracted_fields
                    <=> \E kp \in KeyPatterns : kp[1] = c /\ text.captured[kp] # <<>>
            /\ \A c \in DOMAIN extracted_fields :
                  /\ DOMAIN extracted_fields[c] # {}
                  /\ \A v \in DOMAIN extracted_fields[c] :
                        /\ v.core # ""
                        /\ v.lead = 0
                        /\ v.trail = 0
                        /\ extracted_fields[c][v] = 1

(***************************************************************************)
(* Properties of the context of a match.                                   *)
(***************************************************************************)
\* t occurs in s
Contains(s, t) ==
    \E i \in 0..(Len(s) - Len(t)) : SubSeq(s, i + 1, i + Len(t)) = t

StartsWith(s, t) == Len(s) >= Len(t) /\ SubSeq(s, 1, Len(t)) = t

EndsWith(s, t) == Len(s) >= Len(t) /\ SubSeq(s, Len(s) - Len(t) + 1, Len(s)) = t

\* match.group(0) of the match the context was cut for
matched_text == SubSeq(m_in.text_chars, m_in.start + 1, m_in.end)

\* the window of the call: 100 characters before and after the match, cut at
\* the ends of the text
window_start == IF m_in.start > 100 THEN m_in.start - 100 ELSE 0

window_end ==
    IF m_in.end + 100 < Len(m_in.text_chars) THEN m_in.end + 100 ELSE Len(m_in.text_chars)

\* the context is the window, with or without whitespace runs collapsed,
\* between the ellipses
from_window(context) ==
    LET body == SubSeq(context,
                       IF window_start > 0 THEN 4 ELSE 1,
                       IF window_end < Len(m_in.text_chars)
                       THEN Len(context) - 3 ELSE Len(context))
        window == SubSeq(m_in.text_chars, window_start + 1, window_end)
    IN  /\ window_end - window_start <= 200 + Len(matched_text)
        /\ Len(body) <= Len(window)
        /\ body \in { window, str_strip(window), str_strip(re_sub_whitespace(window)) }

ellipses_mark_cuts(context) ==
    /\ StartsWith(context, Ellipsis) <=> window_start > 0
    /\ EndsWith(context, Ellipsis) <=> window_end < Len(m_in.text_chars)

\* C21: the context returned for a match at [start, end) contains the
\* matched text, is taken from a window of at most 200 + len(match)
\* characters cut at the ends of the text, starts with an ellipsis exactly
\* when the window does not begin at the start of the text and ends with
\* one exactly when the window does not reach the end of the text.
C21_ContextContainsMatch ==
    pc = "context_done" =>
        /\ Contains(m_out, matched_text)
        /\ from_window(m_out)
        /\ ellipses_mark_cuts(m_out)

\* C21, amended: the context contains the matched text with every
\* whitespace run replaced by one space and the whitespace at its ends
\* removed; the window and the ellipses are as stated.
C21_ContextContainsCollapsedMatch ==
    pc = "context_done" =>
        /\ Contains(m_out, str_strip(re_sub_whitespace(matched_text)))
        /\ from_window(m_out)
        /\ ellipses_mark_cuts(m_out)

\* a match across a line break in the middle of a long text: the context has
\* both ellipses and holds the match with its line break and space collapsed,
\* not the match itself
C21_Witness ==
    /\ pc = "context_done"
    /\ Contains(matched_text, << "\n", " " >>)
    /\ StartsWith(m_out, Ellipsis)
    /\ EndsWith(m_out, Ellipsis)
    /\ Contains(m_out, str_strip(re_sub_whitespace(matched_text)))
    /\ ~Contains(m_out, matched_text)

(***************************************************************************)
(* Properties of the indicator lists and of the reachable scores.          *)
(***************************************************************************)
\* C22: every non-unknown result returned by detect_document_type has a
\* non-empty primary_indicators list.
C22_PrimaryNonEmpty ==
    classified => res.primary_indicators # <<>>

\* a text was classified on one key-term match of the smallest confidence
\* such a match can have (0.7), which is its only primary indicator
C22_Witness ==
    /\ classified
    /\ Len(res.primary_indicators) = 1
    /\ res.primary_indicators[1].pattern_type = "key_terms"
    /\ res.primary_indicators[1].confidence = 700
    /\ res.confidence = 210000

\* C25: secondary_indicators of every returned result is empty: every match
\* has a confidence of at least 0.56, above the 0.5 that separates primary
\* from secondary, so every match of the winning type is a primary indicator
\* and the reasoning lists no supporting indicators.
C25_SecondaryEmpty ==
    returned =>
        /\ res.secondary_indicators = <<>>
        /\ \A i \in 1..Len(res.primary_indicators) : res.primary_indicators[i].confidence >= 560
        /\ classified =>
              /\ res.reasoning.weak_indicators = {}
              /\ Len(res.primary_indicators)
                   = Len(_score_document_type(text, res.document_type).matches)

\* a classified result holds a match of the smallest confidence there is
\* (0.56, a late and short match of a category with multiplier 0.8) among
\* its primary indicators
C25_Witness ==
    /\ classified
    /\ \E i \in 1..Len(res.primary_indicators) : res.primary_indicators[i].confidence = 560
    /\ res.secondary_indicators = <<>>

(***************************************************************************)
(* Properties of the retries and of the standalone tasks.                  *)
(***************************************************************************)
\* the fixed ceiling of retries of a retrying task
retry_ceiling(name) ==
    IF name = "process_document_quick_detection" THEN 3
    ELSE IF name = "process_document_type_detection" THEN 2
    ELSE 0

\* C23: a task that is sent again was sent at most 3 times again (quick
\* detection) or 2 times again (type detection), and the delay before each
\* retry after the first is twice the delay before the retry that preceded
\* it.
C23_ExponentialBackoff ==
    [][ \A n \in queue' \ queue :
          /\ n.retries <= retry_ceiling(n.name)
          /\ n.retries >= 1 => n.countdown > 0
          /\ n.retries >= 2 =>
                \E m \in queue \ queue' :
                    /\ m.name = n.name
                    /\ m.id = n.id
                    /\ m.retries = n.retries - 1
                    /\ n.countdown = 2 * m.countdown ]_vars

\* both retrying tasks stand in the queue for their last retry: the quick
\* detection for its third after 300, 600 and 1200 seconds, the type
\* detection for its second after 60 and 120 seconds
C23_Witness ==
    /\ \E m \in queue : m.name = QUICK /\ m.retries = 3 /\ m.countdown = 1200
    /\ \E m \in queue : m.name = TYPE /\ m.retries = 2 /\ m.countdown = 120

(***************************************************************************)
(* Properties of the two status endpoints.                                 *)
(***************************************************************************)
\* C30: for every stored confidence, get_document_status and
\* get_detection_status derive the same tier, the same requires_confirmation
\* flag and the same countdown (10 for medium, none otherwise).
C30_TieringsAgree ==
    pc = "tier_done" =>
        /\ Len(m_out.detection) = Len(tier.detection_result)
        /\ stored.nonempty =>
              LET a == m_out.detection[1]
                  b == tier.detection_result[1]
              IN  /\ a.confidence = b.confidence
                  /\ a.confidence_level = b.confidence_level
                  /\ a.requires_confirmation = b.requires_confirmation
                  /\ a.auto_process_countdown = b.auto_process_countdown
                  /\ a.auto_process_countdown = <<10>> <=> a.confidence_level = "medium"

\* both endpoints answered for a stored confidence of exactly 0.7: medium,
\* confirmation required, countdown 10
C30_Witness ==
    /\ pc = "tier_done"
    /\ stored.nonempty
    /\ stored.has_confidence
    /\ stored.confidence = 700000
    /\ m_out.detection[1].confidence_level = "medium"
    /\ tier.detection_result[1].confidence_level = "medium"
    /\ m_out.detection[1].auto_process_countdown = <<10>>

(***************************************************************************)
(* Properties of the reachable scores.                                     *)
(***************************************************************************)
\* the sum of the category scores of a type before the cap at 1.0
uncapped_score(t) ==
    score_categories(text, t, get_document_patterns(t), 0, <<>>).total_score

\* C24: the confidence returned by detect_document_type is below 0.9 (at
\* most 0.836), the cap of a type score at 1.0 never takes effect, and the
\* stored result is never tiered high: it requires confirmation.
C24_ConfidenceBelowHigh ==
    returned =>
        /\ res.confidence < 900000
        /\ res.confidence <= 836000
        /\ \A t \in CandidateTypes :
              /\ uncapped_score(t) < 1000000
              /\ _score_document_type(text, t).score = uncapped_score(t)
        /\ LET d == get_document_status(detection_results_entry(res)).detection[1]
           IN  /\ d.confidence_level \in { "medium", "low" }
               /\ d.requires_confirmation

\* an early and long hit in each of the three categories of an allocation
\* agreement gives the largest score, 0.4 * 1.0 + 0.3 * 0.9 + 0.2 * 0.83 =
\* 0.836, which is tiered medium
C24_Witness ==
    /\ classified
    /\ res.document_type = "allocation_agreement"
    /\ res.confidence = 836000
    /\ Len(res.primary_indicators) = 3
    /\ get_document_status(detection_results_entry(res)).detection[1].confidence_level
         = "medium"

\* some candidate type has a hit of its title patterns or of its key terms
title_or_key_term_hit ==
    \E slot \in Slots :
        /\ slot[2] \in { "title_patterns", "key_terms" }
        /\ text.found[slot] # <<>>

\* C26: for a text of trimmed length 50 or more the result is non-unknown
\* exactly when some candidate type has a match of its title patterns or of
\* its key terms: one key-term match scores at least 0.21 and one title
\* match at least 0.336, and the matches of a third category score at most
\* 0.166, below the threshold 0.2.
C26_ClassifiedIffTitleOrKeyTerm ==
    (returned /\ stripped_len(text) >= 50) =>
        /\ classified <=> title_or_key_term_hit
        /\ \A t \in CandidateTypes :
              LET third == get_document_patterns(t)[3]
                  score == _score_document_type(text, t).score
              IN  /\ text.found[<<t, "key_terms">>] # <<>> => score >= 210000
                  /\ text.found[<<t, "title_patterns">>] # <<>> => score >= 336000
                  /\ (/\ text.found[<<t, "key_terms">>] = <<>>
                      /\ text.found[<<t, "title_patterns">>] = <<>>) => score <= 166000

\* a text whose only hits are early and long hits of structural patterns
\* scores 0.166 and stays unknown
C26_Witness ==
    /\ returned
    /\ stripped_len(text) >= 50
    /\ ~title_or_key_term_hit
    /\ \E t \in CandidateTypes : _score_document_type(text, t).score = 166000
    /\ res.document_type = UNKNOWN

(***************************************************************************)
(* Properties of runs that overlap.                                        *)
(***************************************************************************)
\* the processing history of the row has the entry of a run
history_has(stage, id) ==
    \E i \in 1..Len(parsed_index.processing_history) :
        /\ parsed_index.processing_history[i].stage = stage
        /\ parsed_index.processing_history[i].task_id = id

\* C27: no update of a standalone task is lost when runs overlap: the row
\* holds detection_results and the history entry of every type detection
\* that succeeded, and layout_analysis and the history entry of every layout
\* analysis that succeeded.
C27_NoLostUpdate ==
    \A r \in succeeded :
        /\ r.name = TYPE =>
              /\ "detection_results" \in parsed_index.keys
              /\ history_has("type_detection", r.id)
        /\ r.name = LAYOUT =>
              /\ "layout_analysis" \in parsed_index.keys
              /\ history_has("layout_analysis", r.id)

\* C28: start_document_detection has queued one task; once the endpoint and
\* the task have both finished and the task wrote a final status (completed
\* or error), the document's status is that final status: the 'detecting'
\* of the endpoint has not overwritten it.
C28_DetectingKeepsFinalStatus ==
    ( /\ task_seq = 1
      /\ running = {}
      /\ queue = {}
      /\ run.task = QUICK
      /\ run.state \in { "SUCCESS", "FAILURE" }
      /\ run.ocr_status \in { OcrStatus.COMPLETED, OcrStatus.ERROR } )
    => ocr_status = run.ocr_status

\* the document is missing, has no ocr_results, or its OCR text is short
type_detection_unready ==
    \/ ocr_status = Absent
    \/ parsed_index.null
    \/ "ocr_results" \notin parsed_index.keys
    \/ text.none
    \/ TrimmedLength < 50

\* C29: an attempt of process_document_type_detection leaves ocr_status as
\* it was; when the document is missing, has no ocr_results or has an OCR
\* text of trimmed length < 50, the attempt also leaves parsed_index as it
\* was and ends in a retry (while retries remain) or in failure, never in
\* success, so that the run ends in failure.
C29_UnreadyTypeDetectionWritesNothing ==
    [][ (\E m \in queue : m.name = TYPE /\ m \notin queue')
        => /\ ocr_status' = ocr_status
           /\ run'.task = TYPE
           /\ type_detection_unready
              => /\ parsed_index' = parsed_index
                 /\ run'.state \in { "RETRY", "FAILURE" }
                 /\ run'.state = "RETRY" => run'.retries < max_retries[TYPE]
                 /\ run'.retries = max_retries[TYPE] => run'.state = "FAILURE" ]_vars

\* the last attempt of a run on a document without ocr_results has failed
C29_Witness ==
    /\ run.task = TYPE
    /\ run.state = "FAILURE"
    /\ run.retries = max_retries[TYPE]
    /\ ocr_status # Absent
    /\ "ocr_results" \notin parsed_index.keys
    /\ parsed_index = run.parsed_index
    /\ ocr_status = run.ocr_status

====
